---- MODULE Spec2Model ----
(***************************************************************************)
(* Model of the concurrency primitive (Semaphore / Mutex) and of the       *)
(* Memory engine's working-memory update bundled in                        *)
(* template-text-to-mongodb/.mastra/.build/@mastra-core-utils-zod-to-json  *)
(* .mjs, together with the MongoDB memory store methods it calls           *)
(* (src/mastra/workflows/database-query-workflow.ts).                      *)
(*                                                                         *)
(* JavaScript runs each synchronous stretch of code atomically; an action  *)
(* of the model is one such stretch (from one await to the next).          *)
(***************************************************************************)
EXTENDS Integers, Sequences, FiniteSets, TLC

(***************************************************************************)
(* Bounds of the model.                                                    *)
(***************************************************************************)
MaxTasks == 2
MaxWeight == 2
MaxPriority == 1
MaxValue == 1
MaxAvail == 2
NumProcs == 2
MaxFailures == 1

TaskIds == 1..MaxTasks

Procs == 1..NumProcs

ThreadIds == {"t1", "t2"}

ResourceIds == {"r1", "r2"}

(***************************************************************************)
(* Generic helpers on sequences.                                           *)
(***************************************************************************)
\* the ids of the requests of a queue
IdSet(q) == {q[i].id : i \in 1..Len(q)}

(***************************************************************************)
(* Strings are sequences of one-character strings.                         *)
(***************************************************************************)
\* String.prototype.includes
includes(s, pat) ==
  \E i \in 1..(Len(s) - Len(pat) + 1) : SubSeq(s, i, i + Len(pat) - 1) = pat

\* String.prototype.indexOf, counted from 1 (0: not found)
indexOf(s, pat) ==
  IF includes(s, pat)
    THEN CHOOSE i \in 1..(Len(s) - Len(pat) + 1) :
           /\ SubSeq(s, i, i + Len(pat) - 1) = pat
           /\ \A j \in 1..(i - 1) : SubSeq(s, j, j + Len(pat) - 1) # pat
    ELSE 0

\* GetSubstitution of ECMAScript for a string pattern (no capture groups):
\* in the replacement text $$ is a dollar and $& the matched text; the two
\* patterns for the text before and after the match need a backquote or an
\* apostrophe, which the model's alphabet does not have.
RECURSIVE GetSubstitution(_, _)
GetSubstitution(repl, matched) ==
  IF repl = <<>> THEN <<>>
  ELSE IF Head(repl) = "$" /\ Len(repl) >= 2 /\ repl[2] \in {"$", "&"}
    THEN (IF repl[2] = "$" THEN <<"$">> ELSE matched)
         \o GetSubstitution(SubSeq(repl, 3, Len(repl)), matched)
    ELSE <<Head(repl)>> \o GetSubstitution(Tail(repl), matched)

\* String.prototype.replace(pattern, replacement) with a string pattern: the
\* first occurrence only
replace(s, pat, repl) ==
  LET i == indexOf(s, pat)
  IN IF i = 0 THEN s
     ELSE SubSeq(s, 1, i - 1) \o GetSubstitution(repl, pat)
          \o SubSeq(s, i + Len(pat), Len(s))

\* String.prototype.replaceAll(pattern, "") with a non-empty string pattern
RECURSIVE removeAll(_, _)
removeAll(s, pat) ==
  LET i == indexOf(s, pat)
  IN IF i = 0 \/ pat = <<>> THEN s
     ELSE SubSeq(s, 1, i - 1) \o removeAll(SubSeq(s, i + Len(pat), Len(s)), pat)

WhiteSpace == {" ", "\n"}

\* String.prototype.trim
RECURSIVE trimStart(_)
trimStart(s) == IF s # <<>> /\ Head(s) \in WhiteSpace THEN trimStart(Tail(s)) ELSE s

RECURSIVE trimEnd(_)
trimEnd(s) ==
  IF s # <<>> /\ s[Len(s)] \in WhiteSpace THEN trimEnd(SubSeq(s, 1, Len(s) - 1)) ELSE s

trim(s) == trimEnd(trimStart(s))

(***************************************************************************)
(* Semaphore.  A semaphore is the record                                   *)
(*   value    : this._value                                                *)
(*   queue    : this._queue, tasks [id, weight, priority]                  *)
(*   resolved : the ids of the acquire promises resolved so far            *)
(*   rejected : the ids of the acquire promises rejected by cancel()       *)
(* _weightedWaiters is only filled by waitForUnlock, which no modelled     *)
(* caller uses: _drainUnlockWaiters then changes nothing.                  *)
(***************************************************************************)
newSemaphore(v) == [value |-> v, queue |-> <<>>, resolved |-> {}, rejected |-> {}]

\* findIndexFromEnd(this._queue, other => priority <= other.priority), with
\* positions counted from 1: 0 stands for the code's -1.
findIndexFromEnd_LT(q, priority) ==
  LET S == {i \in 1..Len(q) : priority < q[i].priority}
  IN IF S = {} THEN 0 ELSE CHOOSE i \in S : \A j \in S : j <= i

findIndexFromEnd(q, priority) ==
  LET S == {i \in 1..Len(q) : priority <= q[i].priority}
  IN IF S = {} THEN 0 ELSE CHOOSE i \in S : \A j \in S : j <= i

\* a grant that leaves the value as it is
dispatchItem_NoTake(s, item) == [s EXCEPT !.resolved = s.resolved \cup {item.id}]

\* _dispatchItem: take the weight and resolve the promise of the request.
dispatchItem(s, item) ==
  [s EXCEPT !.value = s.value - item.weight,
            !.resolved = s.resolved \cup {item.id}]

\* a dispatch that forgets the queue test
acquire_NoQueueTest(s, task) ==
  IF task.weight <= s.value
    THEN dispatchItem(s, task)
    ELSE LET i == findIndexFromEnd(s.queue, task.priority)
         IN [s EXCEPT !.queue = SubSeq(s.queue, 1, i) \o <<task>>
                                \o SubSeq(s.queue, i + 1, Len(s.queue))]

\* acquire(weight, priority), for weight > 0
acquire(s, task) ==
  LET i == findIndexFromEnd(s.queue, task.priority)
  IN IF i = 0 /\ task.weight <= s.value
       THEN dispatchItem(s, task)
       ELSE [s EXCEPT !.queue = SubSeq(s.queue, 1, i) \o <<task>>
                                \o SubSeq(s.queue, i + 1, Len(s.queue))]

\* a dispatch that grants nothing
dispatchQueue_Never(s) == s

\* a dispatch that grants one request at most
dispatchQueue_Once(s) ==
  IF Len(s.queue) > 0 /\ s.queue[1].weight <= s.value
    THEN dispatchItem([s EXCEPT !.queue = Tail(s.queue)], s.queue[1])
    ELSE s

\* _dispatchQueue
RECURSIVE dispatchQueue(_)
dispatchQueue(s) ==
  IF Len(s.queue) > 0 /\ s.queue[1].weight <= s.value
    THEN dispatchQueue(dispatchItem([s EXCEPT !.queue = Tail(s.queue)], s.queue[1]))
    ELSE s

\* a release that does not look at the queue
release_NoDispatch(s, weight) == [s EXCEPT !.value = s.value + weight]

\* release(weight), for weight > 0
release(s, weight) == dispatchQueue([s EXCEPT !.value = s.value + weight])

\* setValue(value)
setValue(s, v) == dispatchQueue([s EXCEPT !.value = v])

\* a cancel that rejects the waiters and keeps them queued
cancel_KeepQueue(s) == [s EXCEPT !.rejected = s.rejected \cup IdSet(s.queue)]

\* cancel()
cancel(s) == [s EXCEPT !.rejected = s.rejected \cup IdSet(s.queue), !.queue = <<>>]

\* a releaser without its "called" flag
releaser_NoFlag(s, cs, id, weight) ==
  [sem |-> release(s, weight), called |-> cs \cup {id}]

\* The function _newReleaser(weight) returns, called for the permit of task
\* id; cs is the set of ids whose releaser has its "called" flag set.
releaser(s, cs, id, weight) ==
  IF id \in cs
    THEN [sem |-> s, called |-> cs]
    ELSE [sem |-> release(s, weight), called |-> cs \cup {id}]

\* isLocked()
isLocked(s) == s.value <= 0

(***************************************************************************)
(* State.                                                                  *)
(*                                                                         *)
(* One Semaphore (or one Mutex) and its callers:                           *)
(*   sem      the semaphore                                                *)
(*   isMutex  whether it is the semaphore of a Mutex (value 1, weight 1)   *)
(*   nextId   the number of the next acquire request, in arrival order     *)
(*   task     each request: its weight, its priority and whether it came   *)
(*            from acquire() or from runExclusive()                        *)
(*   called   the releasers whose "called" flag is set                     *)
(*   running  the runExclusive requests whose callback is executing        *)
(*   ended    how each runExclusive callback ended                         *)
(*   direct   whether release() or setValue() was called directly          *)
(*   lastOp   the last operation completed                                 *)
(***************************************************************************)
VARIABLES sem, isMutex, nextId, task, called, running, ended, direct, lastOp

semVars == <<sem, isMutex, nextId, task, called, running, ended, direct, lastOp>>

(***************************************************************************)
(* One Memory instance over one store, and the callers of                  *)
(* __experimental_updateWorkingMemoryVNext:                                *)
(*   instScope  workingMemory.scope of the instance configuration          *)
(*   mutexes    updateWorkingMemoryMutexes: the Mutex of each key, and     *)
(*   created    the keys the map holds                                     *)
(*   resources  the resources collection: per id, whether the document     *)
(*              exists and its workingMemory                               *)
(*   threads    the threads collection: per id, whether the document       *)
(*              exists and its metadata.workingMemory                      *)
(*   pc, args   each call's position and arguments                         *)
(*   loc        each call's local variables                                *)
(*   result     what each call returned                                    *)
(*   failures   the number of storage calls that threw                     *)
(***************************************************************************)
VARIABLES instScope, supports, mutexes, created, resources, threads, pc, args, loc, result, failures

memVars == <<instScope, supports, mutexes, created, resources, threads, pc, args, loc, result, failures>>

\* The embedding cache of the Memory instance and the calls of
\* embedMessageContent: the hash-keyed cache, the first fastembed promise (the
\* index of its embedMany call, 0 when unset), the embedMany calls made, and
\* for each caller its position, its text, what it returned and the calls
\* that had returned a result when it started.
VARIABLES embedder, embeddingCache, firstEmbed, providerCalls, epc, etext, eres, eseen

embedVars == <<embedder, embeddingCache, firstEmbed, providerCalls, epc, etext, eres, eseen>>

\* One MongoDBStore and its MongoDBConnector, with the callers of
\* getConnection, getCollection and close:
\*   config      the configuration the store is constructed with
\*   connector   the outcome of the constructor: not yet run, a connector
\*               with its #client and #handler, or the error thrown
\*   isConnected, db   the fields #isConnected and #db (0 when undefined,
\*               otherwise the number of the client.db() call that made it)
\*   clientOpen  whether the driver's client is connected
\*   connects, dbHandles, closes, handlerCloses   the calls made of
\*               client.connect(), client.db(), client.close() and
\*               handler.close()
\*   cpc         each caller's position
\*   returned    the database handles returned to callers so far
\*   cerrors     the errors thrown to callers so far
\*   calls       the number of calls started
\*   closesSince the close() calls completed since the connector was last
\*               asked for a connection, and
\*   afterFirst  the fields as the first of them left them
VARIABLES config, connector, isConnected, db, clientOpen, connects, dbHandles, closes,
          handlerCloses, cpc, returned, cerrors, calls, closesSince, afterFirst

connVars == <<config, connector, isConnected, db, clientOpen, connects, dbHandles, closes,
              handlerCloses, cpc, returned, cerrors, calls, closesSince, afterFirst>>

\* The messages and threads collections behind the memory store, written by
\* saveMessages:
\*   messagesColl  the documents of the messages collection
\*   threadsColl   per thread id, whether its document exists and its updatedAt
\*   nextOid       the next _id the database gives an inserted document
\*   clock         the time, one tick per saveMessages call
\*   sres          what the last call returned
\*   sprev         the messages collection as the last call found it
VARIABLES messagesColl, threadsColl, nextOid, clock, sres, sprev

msgVars == <<messagesColl, threadsColl, nextOid, clock, sres, sprev>>

\* The reads of the memory store and of the Memory over it:
\*   rcall   the last call of getMessages, getMessagesPaginated or query,
\*           with its arguments
\*   rres    what it returned
VARIABLES rcall, rres

readVars == <<rcall, rres>>

\* The resources collection with the metadata of its documents, written by
\* updateResource (the working memory section keeps, of the same collection,
\* the working memory alone):
\*   resourcesColl   per resource id, the document
\*   ucall, ures     the last updateResource call and what it returned
\*   uclock          the time, one tick per call
VARIABLES resourcesColl, ucall, ures, uclock

resVars == <<resourcesColl, ucall, ures, uclock>>

\* The workflow snapshot collection:
\*   snapshots   its documents
\*   snapOid     the next _id the database gives an inserted document
\*   wcall, wres the last persistWorkflowSnapshot or loadWorkflowSnapshot
\*               call and what it returned
\*   wclock      the time, one tick per call
\*   persisted   per workflow name and run id, the snapshot last given to
\*               persistWorkflowSnapshot
VARIABLES snapshots, snapOid, wcall, wres, wclock, persisted

snapVars == <<snapshots, snapOid, wcall, wres, wclock, persisted>>

\* One call of an operation that leaves the stored state as it is (a store
\* operation whose driver call fails, chunkText, the MongoDB execution tool):
\*   ocall   the operation and what it was given
\*   ores    its outcome
VARIABLES ocall, ores

opVars == <<ocall, ores>>

\* the state outside the concurrency primitive and the working memory
extVars == <<embedVars, connVars, msgVars, readVars, resVars, snapVars, opVars>>

vars == <<semVars, memVars, extVars>>

NoTask == [weight |-> 0, priority |-> 0, kind |-> "none"]

Op(name, id, weight) == [op |-> name, id |-> id, weight |-> weight]

SemInit(mutex) ==
  /\ isMutex = mutex
  /\ \E v \in (IF mutex THEN {1} ELSE 0..MaxValue) : sem = newSemaphore(v)
  /\ nextId = 1
  /\ task = [i \in TaskIds |-> NoTask]
  /\ called = {}
  /\ running = {}
  /\ ended = [i \in TaskIds |-> "none"]
  /\ direct = FALSE
  /\ lastOp = Op("none", 0, 0)

\* Semaphore.acquire(weight, priority) and the acquire that starts
\* Semaphore.runExclusive(callback, weight, priority); Mutex.acquire(priority)
\* and Mutex.runExclusive(callback, priority) pass weight 1.
Acquire(kind, weight, priority) ==
  /\ UNCHANGED <<memVars, extVars>>
  /\ nextId <= MaxTasks
  /\ isMutex => weight = 1
  /\ IF weight <= 0
       THEN /\ lastOp' = Op("acquire-throw", 0, weight)
            /\ UNCHANGED <<sem, nextId, task>>
       ELSE /\ sem' = acquire(sem, [id |-> nextId, weight |-> weight, priority |-> priority])
            /\ task' = [task EXCEPT ![nextId] =
                          [weight |-> weight, priority |-> priority, kind |-> kind]]
            /\ nextId' = nextId + 1
            /\ lastOp' = Op("acquire", nextId, weight)
  /\ UNCHANGED <<isMutex, called, running, ended, direct>>

\* runExclusive resumes after its acquire has resolved and calls the callback.
CallbackStart(id) ==
  /\ UNCHANGED <<memVars, extVars>>
  /\ task[id].kind = "runExclusive"
  /\ id \in sem.resolved
  /\ id \notin running
  /\ ended[id] = "none"
  /\ running' = running \cup {id}
  /\ lastOp' = Op("callback-start", id, task[id].weight)
  /\ UNCHANGED <<sem, isMutex, nextId, task, called, ended, direct>>

\* a runExclusive that releases only when the callback returns normally
runExclusiveEnd_NoFinally(s, cs, id, weight, how) ==
  IF how = "return" THEN releaser(s, cs, id, weight) ELSE [sem |-> s, called |-> cs]

\* runExclusive's "finally { release(); }", after the callback returned or threw
runExclusiveEnd(s, cs, id, weight, how) == releaser(s, cs, id, weight)

CallbackEnd(id, how) ==
  /\ UNCHANGED <<memVars, extVars>>
  /\ id \in running
  /\ LET r == runExclusiveEnd(sem, called, id, task[id].weight, how)
     IN /\ sem' = r.sem
        /\ called' = r.called
  /\ running' = running \ {id}
  /\ ended' = [ended EXCEPT ![id] = how]
  /\ lastOp' = Op("callback-end", id, task[id].weight)
  /\ UNCHANGED <<isMutex, nextId, task, direct>>

\* The caller of acquire() calls the releaser it was given (any number of times).
ReleaserCall(id) ==
  /\ UNCHANGED <<memVars, extVars>>
  /\ task[id].kind = "acquire"
  /\ id \in sem.resolved
  /\ LET r == releaser(sem, called, id, task[id].weight)
     IN /\ sem' = r.sem
        /\ called' = r.called
  /\ lastOp' = Op(IF id \in called THEN "releaser-noop" ELSE "releaser", id, task[id].weight)
  /\ UNCHANGED <<isMutex, nextId, task, running, ended, direct>>

\* Mutex.release()
mutexRelease(s) == IF isLocked(s) THEN release(s, 1) ELSE s

\* Semaphore.release(weight) called directly, and Mutex.release().
Release(weight) ==
  /\ UNCHANGED <<memVars, extVars>>
  /\ isMutex => weight = 1
  /\ sem.value + weight <= MaxAvail
  /\ IF weight <= 0
       THEN /\ lastOp' = Op("release-throw", 0, weight)
            /\ UNCHANGED <<sem, direct>>
       ELSE /\ sem' = IF isMutex THEN mutexRelease(sem) ELSE release(sem, weight)
            /\ direct' = TRUE
            /\ lastOp' = Op("release", 0, weight)
  /\ UNCHANGED <<isMutex, nextId, task, called, running, ended>>

\* Semaphore.setValue(value)
SetValue(v) ==
  /\ UNCHANGED <<memVars, extVars>>
  /\ ~isMutex
  /\ sem' = setValue(sem, v)
  /\ direct' = TRUE
  /\ lastOp' = Op("setValue", 0, v)
  /\ UNCHANGED <<isMutex, nextId, task, called, running, ended>>

\* Semaphore.cancel() and Mutex.cancel()
Cancel ==
  /\ UNCHANGED <<memVars, extVars>>
  /\ sem' = cancel(sem)
  /\ lastOp' = Op("cancel", 0, 0)
  /\ UNCHANGED <<isMutex, nextId, task, called, running, ended, direct>>

(***************************************************************************)
(* The Memory engine: __experimental_updateWorkingMemoryVNext.             *)
(***************************************************************************)
Keys == ({"thread"} \X ThreadIds) \cup ({"resource"} \X ResourceIds)

\* getWorkingMemoryTemplate(...).content: the configured template, trimmed
Template == <<"#", "t">>

\* getMergedThreadConfig(memoryConfig).workingMemory.scope || "thread": the
\* scope of the call's configuration when it sets one, else the instance's
getMergedThreadConfig(inst, callScope) ==
  IF callScope # "unset" THEN callScope
  ELSE IF inst # "unset" THEN inst ELSE "thread"

\* one key for every update
mutexKey_Shared(inst, a) == <<"thread", "t1">>

\* mutexKey: from memoryConfig, the configuration of the call alone
mutexKey(inst, a) ==
  IF a.callScope = "resource"
    THEN <<"resource", a.resourceId>> ELSE <<"thread", a.threadId>>

\* a map that does not keep its mutexes: a new Mutex for every call
mutexFor_AlwaysNew(ms, cr, key) == newSemaphore(1)

\* updateWorkingMemoryMutexes.has(key) ? .get(key) : new Mutex()
mutexFor(ms, cr, key) == IF key \in cr THEN ms[key] ELSE newSemaphore(1)

\* scope === "resource" && resourceId
toResource(inst, a) == getMergedThreadConfig(inst, a.callScope) = "resource"

\* a merge without the guard against duplicates: what is not replaced is appended
mergeWorkingMemory_NoGuard(existing, workingMemory, searchString, template) ==
  IF existing # <<>>
    THEN IF searchString # <<>> /\ includes(existing, searchString)
           THEN [write |-> TRUE,
                 value |-> removeAll(replace(existing, searchString, workingMemory), template),
                 reason |-> "found and replaced searchString with newMemory"]
           ELSE [write |-> TRUE,
                 value |-> removeAll(existing \o <<"\n">> \o workingMemory, template),
                 reason |-> "appended newMemory to end of working memory"]
    ELSE [write |-> TRUE, value |-> removeAll(workingMemory, template),
          reason |-> "started new working memory"]

\* The merge of the new content into the stored value: what is to be written
\* (once the template's text is removed from it), or the refusal returned.
mergeWorkingMemory(existing, workingMemory, searchString, template) ==
  LET strip(v) == IF template # <<>> THEN removeAll(v, template) ELSE v
  IN IF existing # <<>>
       THEN IF searchString # <<>> /\ includes(existing, searchString)
              THEN [write |-> TRUE,
                    value |-> strip(replace(existing, searchString, workingMemory)),
                    reason |-> "found and replaced searchString with newMemory"]
            ELSE IF includes(existing, workingMemory) \/ trim(template) = trim(workingMemory)
              THEN [write |-> FALSE, value |-> <<>>,
                    reason |-> "attempted to insert duplicate data into working memory. this entry was skipped"]
            ELSE [write |-> TRUE,
                  value |-> strip(existing \o <<"\n">> \o workingMemory),
                  reason |-> IF searchString # <<>>
                               THEN "attempted to replace working memory string that doesn't exist. Appending to working memory instead."
                               ELSE "appended newMemory to end of working memory"]
     ELSE IF workingMemory = template
       THEN [write |-> FALSE, value |-> <<>>,
             reason |-> "try again when you have data to add. newMemory was equal to the working memory template"]
     ELSE [write |-> TRUE, value |-> strip(workingMemory),
           reason |-> "started new working memory"]

NoArgs == [threadId |-> "t1", resourceId |-> "r1", workingMemory |-> <<>>,
           searchString |-> <<>>, callScope |-> "unset"]

NoLoc == [key |-> <<"thread", "t1">>, existing |-> <<>>, value |-> <<>>, reason |-> "",
          found |-> FALSE, failed |-> FALSE]

NoResult == [success |-> FALSE, reason |-> "none"]

NoDoc == [exists |-> FALSE, workingMemory |-> <<>>]

ToolError == [success |-> FALSE, reason |-> "Tool error."]

\* The state after construction; the store holds the threads in ts and the
\* resources in rs, each with working memory wm.
MemInitOn(sup, scopes, ts, rs, wm) ==
  /\ instScope \in scopes
  /\ supports \in sup
  /\ mutexes = [k \in Keys |-> newSemaphore(1)]
  /\ created = {}
  /\ resources = [r \in ResourceIds |->
                    IF r \in rs THEN [exists |-> TRUE, workingMemory |-> wm] ELSE NoDoc]
  /\ threads = [t \in ThreadIds |->
                  IF t \in ts THEN [exists |-> TRUE, workingMemory |-> wm] ELSE NoDoc]
  /\ pc = [p \in Procs |-> "idle"]
  /\ args = [p \in Procs |-> NoArgs]
  /\ loc = [p \in Procs |-> NoLoc]
  /\ result = [p \in Procs |-> NoResult]
  /\ failures = 0

\* The store of this repository, MongoDBStore, declares resourceWorkingMemory.
MemInit(scopes, ts, rs, wm) == MemInitOn({TRUE}, scopes, ts, rs, wm)

\* the error checkStorageFeatureSupport throws
Unsupported ==
  [success |-> FALSE,
   reason |-> "Memory error: storage doesn't support workingMemory: { scope: \"resource\" }"]

\* a check that lets every configuration through
checkStorageFeatureSupport_Never(inst, sup, a) == FALSE

\* checkStorageFeatureSupport(config) throws: working memory is enabled, its
\* merged scope is "resource" and storage.supports.resourceWorkingMemory is not set
checkStorageFeatureSupport(inst, sup, a) ==
  getMergedThreadConfig(inst, a.callScope) = "resource" /\ ~sup

\* the throw of checkStorageFeatureSupport, which no try encloses: the call
\* is over, rejected with the error
Reject(p, a) ==
  /\ args' = [args EXCEPT ![p] = a]
  /\ result' = [result EXCEPT ![p] = Unsupported]
  /\ pc' = [pc EXCEPT ![p] = "done"]
  /\ UNCHANGED <<instScope, supports, mutexes, created, resources, threads, loc, failures>>

\* updateWorkingMemory takes no mutex: its calls have no key
NoKey == <<"none", "none">>

\* updateWorkingMemory lets the error of a storage call through
Thrown == [success |-> FALSE, reason |-> "thrown"]

\* what a call returns when a storage call threw
Failure(p) == IF loc[p].key = NoKey THEN Thrown ELSE ToolError

\* return or throw inside try: "finally { release(); }", and the call is over
Finish(p, res) ==
  /\ mutexes' = IF loc[p].key = NoKey THEN mutexes
                ELSE [mutexes EXCEPT ![loc[p].key] = releaser(@, {}, p, 1).sem]
  /\ result' = [result EXCEPT ![p] = res]
  /\ pc' = [pc EXCEPT ![p] = "done"]

\* a catch that returns without the release
Throw_NoRelease(p) ==
  /\ failures < MaxFailures
  /\ failures' = failures + 1
  /\ loc' = [loc EXCEPT ![p].failed = TRUE]
  /\ result' = [result EXCEPT ![p] = ToolError]
  /\ pc' = [pc EXCEPT ![p] = "done"]
  /\ UNCHANGED <<instScope, supports, mutexes, created, resources, threads, args>>

\* A storage call throws: catch logs it and returns the tool error.
Throw(p) ==
  /\ failures < MaxFailures
  /\ failures' = failures + 1
  /\ loc' = [loc EXCEPT ![p].failed = TRUE]
  /\ Finish(p, Failure(p))
  /\ UNCHANGED <<instScope, supports, created, resources, threads, args>>

\* The call up to "await mutex.acquire()": the key, the Mutex of the map (a
\* new one on the first use of the key) and the acquire request.
Start(p, a) ==
  /\ UNCHANGED <<semVars, extVars>>
  /\ pc[p] = "idle"
  /\ IF checkStorageFeatureSupport(instScope, supports, a)
       THEN Reject(p, a)
       ELSE /\ LET key == mutexKey(instScope, a)
               IN /\ mutexes' = [mutexes EXCEPT ![key] =
                                   acquire(mutexFor(mutexes, created, key),
                                           [id |-> p, weight |-> 1, priority |-> 0])]
                  /\ created' = created \cup {key}
                  /\ loc' = [loc EXCEPT ![p].key = key]
            /\ args' = [args EXCEPT ![p] = a]
            /\ pc' = [pc EXCEPT ![p] = "acquire"]
            /\ UNCHANGED <<instScope, supports, resources, threads, result, failures>>

\* updateWorkingMemory up to its first storage call: the content is written
\* as it is, to the resource or to the thread, without any mutex.
UpdateWorkingMemory(p, a) ==
  /\ UNCHANGED <<semVars, extVars>>
  /\ pc[p] = "idle"
  /\ IF checkStorageFeatureSupport(instScope, supports, a)
       THEN Reject(p, a)
       ELSE /\ args' = [args EXCEPT ![p] = a]
            /\ loc' = [loc EXCEPT ![p].key = NoKey, ![p].value = a.workingMemory]
            /\ pc' = [pc EXCEPT ![p] = IF toResource(instScope, a) THEN "updateResource"
                                                                   ELSE "getThreadById"]
            /\ UNCHANGED <<instScope, supports, mutexes, created, resources, threads,
                           result, failures>>

\* getWorkingMemory: the stored value of the resource or of the thread
getWorkingMemory(inst, a, rs, ts) ==
  IF toResource(inst, a)
    THEN rs[a.resourceId].workingMemory
    ELSE ts[a.threadId].workingMemory

\* what getWorkingMemory returns: the stored value
Read(value) == [success |-> TRUE, reason |-> value]

\* A call of getWorkingMemory: the check, then one storage read
\* (getResourceById or getThreadById), whose error it lets through.
ReadWorkingMemory(p, a) ==
  /\ UNCHANGED <<semVars, extVars>>
  /\ pc[p] = "idle"
  /\ IF checkStorageFeatureSupport(instScope, supports, a)
       THEN Reject(p, a)
       ELSE /\ args' = [args EXCEPT ![p] = a]
            /\ pc' = [pc EXCEPT ![p] = "done"]
            /\ \/ /\ failures < MaxFailures
                  /\ failures' = failures + 1
                  /\ loc' = [loc EXCEPT ![p].key = NoKey, ![p].failed = TRUE]
                  /\ result' = [result EXCEPT ![p] = Thrown]
               \/ /\ loc' = [loc EXCEPT ![p].key = NoKey,
                                        ![p].existing =
                                          getWorkingMemory(instScope, a, resources, threads)]
                  /\ result' = [result EXCEPT ![p] = Read(loc'[p].existing)]
                  /\ UNCHANGED failures
            /\ UNCHANGED <<instScope, supports, mutexes, created, resources, threads>>

\* With the mutex granted: read the stored value, merge, and either return
\* the refusal or go on to the write.
GetWorkingMemory(p) ==
  /\ UNCHANGED <<semVars, extVars>>
  /\ pc[p] = "acquire"
  /\ p \in mutexes[loc[p].key].resolved
  /\ \/ Throw(p)
     \/ LET existing == getWorkingMemory(instScope, args[p], resources, threads)
            m == mergeWorkingMemory(existing, args[p].workingMemory,
                                    args[p].searchString, Template)
        IN /\ loc' = [loc EXCEPT ![p].existing = existing, ![p].value = m.value,
                                 ![p].reason = m.reason]
           /\ IF m.write
                THEN /\ pc' = [pc EXCEPT ![p] =
                                 IF toResource(instScope, args[p])
                                   THEN "updateResource" ELSE "getThreadById"]
                     /\ UNCHANGED <<mutexes, result>>
                ELSE Finish(p, [success |-> FALSE, reason |-> m.reason])
           /\ UNCHANGED <<instScope, supports, created, resources, threads, args, failures>>

\* storage.updateResource, first half: getResourceById
UpdateResourceGet(p) ==
  /\ UNCHANGED <<semVars, extVars>>
  /\ pc[p] = "updateResource"
  /\ \/ Throw(p)
     \/ /\ loc' = [loc EXCEPT ![p].found = resources[args[p].resourceId].exists]
        /\ pc' = [pc EXCEPT ![p] = "updateResourceSet"]
        /\ UNCHANGED <<instScope, supports, mutexes, created, resources, threads, args, result, failures>>

\* storage.updateResource, second half: saveResource (an upsert) when the
\* resource was not found, else updateOne of the workingMemory
UpdateResourceSet(p) ==
  /\ UNCHANGED <<semVars, extVars>>
  /\ pc[p] = "updateResourceSet"
  /\ \/ Throw(p)
     \/ /\ resources' =
             [resources EXCEPT ![args[p].resourceId] =
                IF loc[p].found /\ ~@.exists THEN @
                ELSE [exists |-> TRUE, workingMemory |-> loc[p].value]]
        /\ Finish(p, [success |-> TRUE, reason |-> loc[p].reason])
        /\ UNCHANGED <<instScope, supports, created, threads, args, loc, failures>>

\* storage.getThreadById, then "Thread not found" when there is none
GetThreadById(p) ==
  /\ UNCHANGED <<semVars, extVars>>
  /\ pc[p] = "getThreadById"
  /\ \/ Throw(p)
     \/ /\ IF threads[args[p].threadId].exists
             THEN /\ pc' = [pc EXCEPT ![p] = "updateThread"]
                  /\ UNCHANGED <<mutexes, result>>
             ELSE Finish(p, Failure(p))
        /\ UNCHANGED <<instScope, supports, created, resources, threads, args, loc, failures>>

\* storage.updateThread, first half: getThreadById
UpdateThreadGet(p) ==
  /\ UNCHANGED <<semVars, extVars>>
  /\ pc[p] = "updateThread"
  /\ \/ Throw(p)
     \/ /\ IF threads[args[p].threadId].exists
             THEN /\ pc' = [pc EXCEPT ![p] = "updateThreadSet"]
                  /\ UNCHANGED <<mutexes, result>>
             ELSE Finish(p, Failure(p))
        /\ UNCHANGED <<instScope, supports, created, resources, threads, args, loc, failures>>

\* storage.updateThread, second half: updateOne of title and metadata
UpdateThreadSet(p) ==
  /\ UNCHANGED <<semVars, extVars>>
  /\ pc[p] = "updateThreadSet"
  /\ \/ Throw(p)
     \/ /\ threads' = [threads EXCEPT ![args[p].threadId] =
                         IF @.exists THEN [@ EXCEPT !.workingMemory = loc[p].value] ELSE @]
        /\ Finish(p, [success |-> TRUE, reason |-> loc[p].reason])
        /\ UNCHANGED <<instScope, supports, created, resources, args, loc, failures>>

\* one step of call p after its start
Step(p) ==
  \/ GetWorkingMemory(p)
  \/ UpdateResourceGet(p)
  \/ UpdateResourceSet(p)
  \/ GetThreadById(p)
  \/ UpdateThreadGet(p)
  \/ UpdateThreadSet(p)

\* The arguments of the concurrent calls.
Contents == {<<"a">>, <<"b">>}

Searches == {<<>>, <<"a">>}

Scopes == {"unset", "thread", "resource"}

Args(ts, rs, ws, ss, scs) ==
  [threadId : ts, resourceId : rs, workingMemory : ws, searchString : ss, callScope : scs]

\* The arguments and the stored values of the calls made one after the other.
MergeContents ==
  {<<"a">>, <<"b">>, <<"a", "b">>, Template, <<" ">> \o Template, <<"$", "&", "b">>, <<"$", "$">>}

MergeSearches == {<<>>, <<"a">>, <<"c">>}

InitialMemories == {<<>>, <<"a">>}

MemIdle == MemInit({"thread"}, {}, {}, <<>>)

(***************************************************************************)
(* The embedding cache: Memory.embedMessageContent.                        *)
(***************************************************************************)
\* Texts to embed.  The first two have the same 32-bit xxHash.
Texts == {"note 231", "note 261436", "note 7"}

\* (await this.hasher).h32(content): xxHash32 of the UTF-8 text, seed 0,
\* written in hexadecimal
h32(content) ==
  CASE content = "note 231" -> "cd7b2a14"
    [] content = "note 261436" -> "cd7b2a14"
    [] content = "note 7" -> "73b78828"

HashKeys == {h32(t) : t \in Texts}

NoEntry == [chunks |-> "", embeddings |-> 0]

EmbedError == [chunks |-> "", embeddings |-> -1]

\* a lookup that never finds anything
cacheGet_Miss(cache, key) == NoEntry

\* this.embeddingCache.get(key)
cacheGet(cache, key) == cache[key]

EmbedInit(kinds) ==
  /\ embedder \in kinds
  /\ embeddingCache = [k \in HashKeys |-> NoEntry]
  /\ firstEmbed = 0
  /\ providerCalls = <<>>
  /\ epc = [p \in Procs |-> "idle"]
  /\ etext = [p \in Procs |-> ""]
  /\ eres = [p \in Procs |-> NoEntry]
  /\ eseen = [p \in Procs |-> {}]

EmbedIdle == EmbedInit({"none"})

\* the caller whose embedMany call is the promise k
PromiseOwner(k) == providerCalls[k].by

PromisePending(k) == epc[PromiseOwner(k)] = "embedMany"

PromiseRejected(k) == ~PromisePending(k) /\ eres[PromiseOwner(k)] = EmbedError

\* embedMany({values: chunks, model: this.embedder}), and the first promise
\* of a fastembed embedder is kept in firstEmbed
InvokeProvider(p) ==
  /\ providerCalls' = Append(providerCalls, [text |-> etext[p], by |-> p])
  /\ firstEmbed' = IF embedder = "fastembed" /\ firstEmbed = 0
                     THEN Len(providerCalls) + 1 ELSE firstEmbed
  /\ epc' = [epc EXCEPT ![p] = "embedMany"]
  /\ UNCHANGED <<embedder, embeddingCache, etext, eres, eseen>>

EmbedThrow(p) ==
  /\ eres' = [eres EXCEPT ![p] = EmbedError]
  /\ epc' = [epc EXCEPT ![p] = "done"]
  /\ UNCHANGED <<embedder, embeddingCache, firstEmbed, providerCalls, etext, eseen>>

\* embedMessageContent(content) up to "await this.hasher"
EmbedMessageContent(p, content) ==
  /\ UNCHANGED <<semVars, memVars, connVars, msgVars, readVars, resVars, snapVars, opVars>>
  /\ epc[p] = "idle"
  /\ etext' = [etext EXCEPT ![p] = content]
  /\ eseen' = [eseen EXCEPT ![p] =
                 {q \in Procs : epc[q] = "done" /\ eres[q] # EmbedError}]
  /\ epc' = [epc EXCEPT ![p] = "hasher"]
  /\ UNCHANGED <<embedder, embeddingCache, firstEmbed, providerCalls, eres>>

\* From the hash to the next await: the cached result is returned, or the
\* text is chunked and embedMany is called (after the first promise of a
\* fastembed embedder, when there is one).
EmbedLookup(p) ==
  /\ UNCHANGED <<semVars, memVars, connVars, msgVars, readVars, resVars, snapVars, opVars>>
  /\ epc[p] = "hasher"
  /\ LET cached == cacheGet(embeddingCache, h32(etext[p]))
     IN IF cached # NoEntry
          THEN /\ eres' = [eres EXCEPT ![p] = cached]
               /\ epc' = [epc EXCEPT ![p] = "done"]
               /\ UNCHANGED <<embedder, embeddingCache, firstEmbed, providerCalls, etext, eseen>>
          ELSE IF embedder = "none" THEN EmbedThrow(p)
          ELSE IF embedder = "fastembed" /\ firstEmbed # 0
            THEN /\ epc' = [epc EXCEPT ![p] = "firstEmbed"]
                 /\ UNCHANGED <<embedder, embeddingCache, firstEmbed, providerCalls,
                                etext, eres, eseen>>
          ELSE InvokeProvider(p)

\* "await this.firstEmbed" is over: embedMany is called, or the rejection of
\* the first promise is thrown
EmbedAfterFirst(p) ==
  /\ UNCHANGED <<semVars, memVars, connVars, msgVars, readVars, resVars, snapVars, opVars>>
  /\ epc[p] = "firstEmbed"
  /\ ~PromisePending(firstEmbed)
  /\ IF PromiseRejected(firstEmbed) THEN EmbedThrow(p) ELSE InvokeProvider(p)

\* "await promise" is over: the result is cached under the key and returned,
\* or the provider's error is thrown
EmbedDone(p) ==
  /\ UNCHANGED <<semVars, memVars, connVars, msgVars, readVars, resVars, snapVars, opVars>>
  /\ epc[p] = "embedMany"
  /\ \/ /\ Cardinality({q \in Procs : eres[q] = EmbedError}) < MaxFailures
        /\ EmbedThrow(p)
     \/ LET k == CHOOSE k \in 1..Len(providerCalls) : providerCalls[k].by = p
            r == [chunks |-> etext[p], embeddings |-> k]
        IN /\ embeddingCache' = [embeddingCache EXCEPT ![h32(etext[p])] = r]
           /\ eres' = [eres EXCEPT ![p] = r]
           /\ epc' = [epc EXCEPT ![p] = "done"]
           /\ UNCHANGED <<embedder, firstEmbed, providerCalls, etext, eseen>>

(***************************************************************************)
(* MongoDBStore's constructor and MongoDBConnector.                        *)
(***************************************************************************)

\* the getConnection, getCollection and close calls a run makes at most
MaxCalls == 4

\* a configuration value: undefined, or a string written as its characters
Undefined == [defined |-> FALSE, chars |-> <<>>]

Str(cs) == [defined |-> TRUE, chars |-> cs]

\* !value?.trim().length
Blank(value) == ~value.defined \/ Len(trim(value.chars)) = 0

ConfigStrings == {Undefined, Str(<<>>), Str(<<" ">>), Str(<<"u">>), Str(<<" ", "u">>)}

\* the key connectorHandler of a configuration: absent, present with the
\* value undefined, or present with a handler
Handlers == {"absent", "undefined", "handler"}

Configs == [connectorHandler : Handlers, url : ConfigStrings, dbName : ConfigStrings]

NoConnector == [state |-> "none", client |-> FALSE, handler |-> FALSE, error |-> "", cause |-> ""]

\* new _MongoDBConnector(options)
NewConnector(client, handler) ==
  [state |-> "ok", client |-> client, handler |-> handler, error |-> "", cause |-> ""]

ConstructorThrows(cause) ==
  [state |-> "failed", client |-> FALSE, handler |-> FALSE, error |-> "Error", cause |-> cause]

fromDatabaseConfig(c) ==
  IF Blank(c.url) THEN ConstructorThrows("url must be provided and cannot be empty")
  ELSE IF Blank(c.dbName) THEN ConstructorThrows("dbName must be provided and cannot be empty")
  ELSE NewConnector(TRUE, FALSE)

fromConnectionHandler(handler) == NewConnector(FALSE, handler = "handler")

\* "connectorHandler" in config decides, and an error of fromDatabaseConfig
\* is wrapped in a MastraError
loadConnector(c) ==
  IF c.connectorHandler # "absent" THEN fromConnectionHandler(c.connectorHandler)
  ELSE LET r == fromDatabaseConfig([url |-> c.url, dbName |-> c.dbName])
       IN IF r.state = "failed"
          THEN [r EXCEPT !.error = "STORAGE_MONGODB_STORE_CONSTRUCTOR_FAILED"]
          ELSE r

ConnInit(configs) ==
  /\ config \in configs
  /\ connector = NoConnector
  /\ isConnected = FALSE
  /\ db = 0
  /\ clientOpen = FALSE
  /\ connects = 0
  /\ dbHandles = 0
  /\ closes = 0
  /\ handlerCloses = 0
  /\ cpc = [p \in Procs |-> "idle"]
  /\ returned = {}
  /\ cerrors = {}
  /\ calls = 0
  /\ closesSince = 0
  /\ afterFirst = <<FALSE, 0, FALSE>>

ConnIdle ==
  ConnInit({[connectorHandler |-> "absent", url |-> Str(<<"u">>), dbName |-> Str(<<"u">>)]})

\* new MongoDBStore(config): this.#connector = loadConnector(config)
NewMongoDBStore ==
  /\ connector.state = "none"
  /\ connector' = loadConnector(config)
  /\ UNCHANGED <<config, isConnected, db, clientOpen, connects, dbHandles, closes,
                 handlerCloses, cpc, returned, cerrors, calls, closesSince, afterFirst>>
  /\ UNCHANGED <<semVars, memVars, embedVars, msgVars, readVars, resVars, snapVars, opVars>>

CanCall(p) ==
  /\ connector.state = "ok"
  /\ cpc[p] = "idle"
  /\ calls < MaxCalls

\* getConnection up to the end of the call or to await this.#client.connect()
getConnection(p) ==
  IF connector.client
  THEN IF isConnected /\ db # 0
       THEN /\ returned' = returned \cup {db}
            /\ UNCHANGED <<connects, cpc, cerrors>>
       ELSE /\ connects' = connects + 1
            /\ cpc' = [cpc EXCEPT ![p] = "connect"]
            /\ UNCHANGED <<returned, cerrors>>
  ELSE /\ cerrors' = cerrors \cup {"client cannot be empty"}
       /\ UNCHANGED <<connects, cpc, returned>>

GetConnection(p) ==
  /\ CanCall(p)
  /\ calls' = calls + 1
  /\ closesSince' = 0
  /\ getConnection(p)
  /\ UNCHANGED <<config, connector, isConnected, db, clientOpen, dbHandles, closes,
                 handlerCloses, afterFirst>>
  /\ UNCHANGED <<semVars, memVars, embedVars, msgVars, readVars, resVars, snapVars, opVars>>

\* getCollection: the handler's collection, or that of the connection
GetCollection(p) ==
  /\ CanCall(p)
  /\ calls' = calls + 1
  /\ closesSince' = 0
  /\ IF connector.handler
     THEN UNCHANGED <<connects, cpc, returned, cerrors>>
     ELSE getConnection(p)
  /\ UNCHANGED <<config, connector, isConnected, db, clientOpen, dbHandles, closes,
                 handlerCloses, afterFirst>>
  /\ UNCHANGED <<semVars, memVars, embedVars, msgVars, readVars, resVars, snapVars, opVars>>

\* connect() resolved: this.#db = this.#client.db(this.#dbName), a new handle
ConnectDone(p) ==
  /\ cpc[p] = "connect"
  /\ clientOpen' = TRUE
  /\ dbHandles' = dbHandles + 1
  /\ db' = dbHandles + 1
  /\ isConnected' = TRUE
  /\ returned' = returned \cup {dbHandles + 1}
  /\ cpc' = [cpc EXCEPT ![p] = "idle"]
  /\ closesSince' = 0
  /\ UNCHANGED <<config, connector, connects, closes, handlerCloses, cerrors, calls,
                 afterFirst>>
  /\ UNCHANGED <<semVars, memVars, embedVars, msgVars, readVars, resVars, snapVars, opVars>>

\* connect() rejected
ConnectFail(p) ==
  /\ cpc[p] = "connect"
  /\ cerrors' = cerrors \cup {"connect failed"}
  /\ cpc' = [cpc EXCEPT ![p] = "idle"]
  /\ closesSince' = 0
  /\ UNCHANGED <<config, connector, isConnected, db, clientOpen, connects, dbHandles,
                 closes, handlerCloses, returned, calls, afterFirst>>
  /\ UNCHANGED <<semVars, memVars, embedVars, msgVars, readVars, resVars, snapVars, opVars>>

\* this.#isConnected = false, whatever it was
AfterClose_Toggle(connected) == ~connected

AfterClose(connected) == FALSE

\* a close() call has completed
Closed(connected, open) ==
  /\ closesSince' = closesSince + 1
  /\ afterFirst' = IF closesSince = 0 THEN <<connected, db, open>> ELSE afterFirst

\* close() up to await this.#client.close(), or the whole of it for a
\* connector without a client
Close(p) ==
  /\ CanCall(p)
  /\ calls' = calls + 1
  /\ IF connector.client
     THEN /\ closes' = closes + 1
          /\ cpc' = [cpc EXCEPT ![p] = "close"]
          /\ UNCHANGED <<handlerCloses, closesSince, afterFirst>>
     ELSE /\ handlerCloses' = IF connector.handler THEN handlerCloses + 1 ELSE handlerCloses
          /\ Closed(isConnected, clientOpen)
          /\ UNCHANGED <<closes, cpc>>
  /\ UNCHANGED <<config, connector, isConnected, db, clientOpen, connects, dbHandles,
                 returned, cerrors>>
  /\ UNCHANGED <<semVars, memVars, embedVars, msgVars, readVars, resVars, snapVars, opVars>>

\* client.close() resolved
CloseDone(p) ==
  /\ cpc[p] = "close"
  /\ clientOpen' = FALSE
  /\ isConnected' = AfterClose(isConnected)
  /\ Closed(AfterClose(isConnected), FALSE)
  /\ cpc' = [cpc EXCEPT ![p] = "idle"]
  /\ UNCHANGED <<config, connector, db, connects, dbHandles, closes, handlerCloses,
                 returned, cerrors, calls>>
  /\ UNCHANGED <<semVars, memVars, embedVars, msgVars, readVars, resVars, snapVars, opVars>>

(***************************************************************************)
(* MemoryStorageMongoDB.saveMessages over the messages and threads         *)
(* collections.  A message is written with its id, threadId, resourceId    *)
(* and content; role, type and createdAt are copied into the document the  *)
(* same way as resourceId and are not written out.                         *)
(***************************************************************************)

\* the saveMessages calls of a run, at most
MaxSaves == 2

MsgIds == {"m1", "m2"}

MsgContents == {[type |-> "string", text |-> "a"], [type |-> "object", text |-> "b"]}

\* the messages with a thread and a resource, and two that lack one of them
\* ("" being a missing field)
Messages ==
  [id : MsgIds, threadId : ThreadIds, resourceId : {"r1"}, content : MsgContents]
    \cup {[id |-> "m1", threadId |-> "", resourceId |-> "r1",
           content |-> [type |-> "string", text |-> "a"]],
          [id |-> "m2", threadId |-> "t1", resourceId |-> "",
           content |-> [type |-> "string", text |-> "a"]]}

\* the messages with a thread, a resource and a content of one kind
StoreMessages == {m \in Messages : m.threadId # "" /\ m.resourceId # "" /\ m.content.type = "string"}

\* the lists of no, one and two messages
Batches == {<<>>} \cup {<<m>> : m \in Messages} \cup {<<m, n>> : m, n \in Messages}

\* typeof content === "object" ? JSON.stringify(content) : content
stringify(content) ==
  IF content.type = "object"
  THEN (IF content.text = "a" THEN "{\"text\":\"a\"}" ELSE "{\"text\":\"b\"}")
  ELSE content.text

\* the $set of the updateOne written for a message without a createdAt, at
\* the time new Date() gives
SetOf(m, time) ==
  [id |-> m.id, thread_id |-> m.threadId, content |-> stringify(m.content),
   createdAt |-> time, resourceId |-> m.resourceId]

NewDoc(oid, set) ==
  [oid |-> oid, id |-> set.id, thread_id |-> set.thread_id, content |-> set.content,
   createdAt |-> set.createdAt, resourceId |-> set.resourceId]

\* the first document of the collection with the id
FirstWithId(coll, id) ==
  CHOOSE d \in coll : d.id = id /\ \A e \in coll : e.id = id => d.oid <= e.oid

\* an insert whatever the collection holds
updateOne_Insert(st, set) ==
  [coll |-> st.coll \cup {NewDoc(st.oid, set)}, oid |-> st.oid + 1]

\* updateOne({filter: {id}, update: {$set}, upsert: true}) on the collection
\* and the next _id
updateOne(st, set) ==
  IF \E d \in st.coll : d.id = set.id
  THEN LET d == FirstWithId(st.coll, set.id)
       IN [coll |-> (st.coll \ {d}) \cup {NewDoc(d.oid, set)}, oid |-> st.oid]
  ELSE [coll |-> st.coll \cup {NewDoc(st.oid, set)}, oid |-> st.oid + 1]

\* collection.bulkWrite(operations): the operations in order
RECURSIVE bulkWrite(_, _, _)
bulkWrite(st, msgs, time) ==
  IF msgs = <<>> THEN st
  ELSE bulkWrite(updateOne(st, SetOf(Head(msgs), time)), Tail(msgs), time)

NoReturn == [kind |-> "none", list |-> <<>>]

\* the store holding one of the collections of messages and, of the threads,
\* one of the sets
MsgInitWith(colls, existing) ==
  /\ messagesColl \in colls
  /\ threadsColl \in {[t \in ThreadIds |-> [exists |-> t \in e, updatedAt |-> 0]] : e \in existing}
  /\ nextOid = Cardinality(messagesColl) + 1
  /\ clock = 0
  /\ sres = NoReturn
  /\ sprev = {}

MsgInit(existing) ==
  /\ messagesColl = {}
  /\ threadsColl \in {[t \in ThreadIds |-> [exists |-> t \in e, updatedAt |-> 0]] : e \in existing}
  /\ nextOid = 1
  /\ clock = 0
  /\ sres = NoReturn
  /\ sprev = {}

MsgIdle == MsgInit({{"t1"}})

\* what saveMessages throws before it writes, "" when nothing
SaveError(msgs) ==
  IF msgs[1].threadId = "" THEN "Thread ID is required"
  ELSE IF \E i \in 1..Len(msgs) :
            /\ msgs[i].threadId = ""
            /\ \A j \in 1..(i - 1) : msgs[j].threadId # "" /\ msgs[j].resourceId # ""
       THEN "Expected to find a threadId for message"
  ELSE IF \E i \in 1..Len(msgs) : msgs[i].resourceId = ""
       THEN "Expected to find a resourceId for message"
  ELSE ""

\* saveMessages({messages}): nothing for an empty list; otherwise every
\* message is checked, then the bulkWrite and the bump of the thread of the
\* first message
SaveMessages(msgs) ==
  /\ clock < MaxSaves
  /\ clock' = clock + 1
  /\ sprev' = messagesColl
  /\ IF msgs = <<>>
     THEN /\ sres' = [kind |-> "returned", list |-> msgs]
          /\ UNCHANGED <<messagesColl, threadsColl, nextOid>>
     ELSE IF SaveError(msgs) # ""
     THEN /\ sres' = [kind |-> "MONGODB_STORE_SAVE_MESSAGES_FAILED", list |-> <<>>]
          /\ UNCHANGED <<messagesColl, threadsColl, nextOid>>
     ELSE LET st == bulkWrite([coll |-> messagesColl, oid |-> nextOid], msgs, clock + 1)
              t == msgs[1].threadId
          IN /\ messagesColl' = st.coll
             /\ nextOid' = st.oid
             /\ threadsColl' = IF threadsColl[t].exists
                               THEN [threadsColl EXCEPT ![t].updatedAt = clock + 1]
                               ELSE threadsColl
             /\ sres' = [kind |-> "saved", list |-> msgs]
  /\ UNCHANGED <<semVars, memVars, embedVars, connVars, readVars, resVars, snapVars, opVars>>

(***************************************************************************)
(* Reading messages: resolveMessageLimit, _getIncludedMessages, getMessages *)
(* and getMessagesPaginated of MemoryStorageMongoDB.                       *)
(***************************************************************************)

\* defaultLimit: 40 of getMessages and getMessagesPaginated
defaultLimit == 40

\* selectBy.last (and pagination.perPage): not given, false, or a number
NotGiven == [kind |-> "unset", n |-> 0]

IsFalse == [kind |-> "false", n |-> 0]

Number(n) == [kind |-> "number", n |-> n]

Max(a, b) == IF a >= b THEN a ELSE b

Min(a, b) == IF a <= b THEN a ELSE b

\* false taken for no limit given
resolveMessageLimit_NoFalse(last, default) ==
  IF last.kind = "number" THEN Max(0, last.n) ELSE default

resolveMessageLimit(last, default) ==
  IF last.kind = "number" THEN Max(0, last.n)
  ELSE IF last.kind = "false" THEN 0
  ELSE default

\* !threadId.trim()
BlankId(threadId) == threadId \in {"", " "}

\* the text JSON.stringify writes for an object with the key text, after
\* the key "0" when it has one (chars, "" for none)
JsonOf(chars, text) ==
  IF chars = "" THEN "{\"text\":\"" \o text \o "\"}"
  ELSE "{\"0\":\"" \o chars \o "\",\"text\":\"" \o text \o "\"}"

\* a stored content left as the string it is
parse_Keep(content) == [type |-> "string", text |-> content, chars |-> ""]

\* JSON.parse of a stored content, the content itself when it does not parse
parse(content) ==
  IF \E c \in {"", "a"}, t \in {"a", "b"} : content = JsonOf(c, t)
  THEN LET k == CHOOSE k \in {"", "a"} \X {"a", "b"} : content = JsonOf(k[1], k[2])
       IN [type |-> "object", text |-> k[2], chars |-> k[1]]
  ELSE [type |-> "string", text |-> content, chars |-> ""]

parseRow(row) ==
  [id |-> row.id, content |-> parse(row.content), createdAt |-> row.createdAt,
   threadId |-> row.thread_id, resourceId |-> row.resourceId]

ParseRows(rows) == [i \in 1..Len(rows) |-> parseRow(rows[i])]

Reverse(seq) == [i \in 1..Len(seq) |-> seq[Len(seq) + 1 - i]]

\* a document put in its place in a list in ascending order of createdAt
\* (documents of one createdAt in the order of their _id)
RECURSIVE InsertRow(_, _)
InsertRow(sorted, d) ==
  IF sorted = <<>> THEN <<d>>
  ELSE LET l == sorted[Len(sorted)]
       IN IF l.createdAt < d.createdAt \/ (l.createdAt = d.createdAt /\ l.oid < d.oid)
          THEN Append(sorted, d)
          ELSE Append(InsertRow(SubSeq(sorted, 1, Len(sorted) - 1), d), l)

\* find(...).sort({createdAt: 1}).toArray()
RECURSIVE sortAscending(_)
sortAscending(docs) ==
  IF docs = {} THEN <<>>
  ELSE LET d == CHOOSE d \in docs : TRUE
       IN InsertRow(sortAscending(docs \ {d}), d)

\* find(...).sort({createdAt: -1}).toArray()
sortDescending(docs) == Reverse(sortAscending(docs))

\* cursor.skip(n)
skip(rows, n) == SubSeq(rows, n + 1, Len(rows))

\* cursor.limit(n): the first n documents, and all of them when n is 0, as
\* the database takes a limit of 0 for no limit (getMessages asks only when
\* its limit is above 0)
limit(rows, n) == IF n = 0 THEN rows ELSE SubSeq(rows, 1, Min(n, Len(rows)))

\* the rows around the message of an include entry, in the order of its
\* thread; none when the thread has no message of the id
Window(coll, threadId, inc) ==
  LET searchThreadId == IF inc.threadId = "" THEN threadId ELSE inc.threadId
      allMessages == sortAscending({d \in coll : d.thread_id = searchThreadId})
      found == {i \in 1..Len(allMessages) : allMessages[i].id = inc.id}
  IN IF found = {} THEN <<>>
     ELSE LET targetIndex == CHOOSE i \in found : \A j \in found : i <= j
              startIndex == Max(1, targetIndex - inc.withPreviousMessages)
              endIndex == Min(Len(allMessages), targetIndex + inc.withNextMessages)
          IN SubSeq(allMessages, startIndex, endIndex)

RECURSIVE includedMessages(_, _, _)
includedMessages(coll, threadId, include) ==
  IF include = <<>> THEN <<>>
  ELSE Window(coll, threadId, Head(include))
         \o includedMessages(coll, threadId, Tail(include))

\* the rows of a list without those whose id an earlier row has
RECURSIVE deduped(_)
deduped(rows) ==
  IF rows = <<>> THEN <<>>
  ELSE LET front == deduped(SubSeq(rows, 1, Len(rows) - 1))
           l == rows[Len(rows)]
       IN IF \E i \in 1..Len(front) : front[i].id = l.id THEN front ELSE Append(front, l)

\* _getIncludedMessages for a thread id that is not blank
getIncludedMessages(coll, threadId, include) ==
  ParseRows(deduped(includedMessages(coll, threadId, include)))

\* a sort that leaves the list as it is
sortByCreatedAt_None(msgs) == msgs

\* messages.sort((a, b) => a.createdAt.getTime() - b.createdAt.getTime()),
\* a stable sort
RECURSIVE sortByCreatedAt(_)
sortByCreatedAt(msgs) ==
  IF msgs = <<>> THEN <<>>
  ELSE LET front == sortByCreatedAt(SubSeq(msgs, 1, Len(msgs) - 1))
           m == msgs[Len(msgs)]
           before == {i \in 1..Len(front) : front[i].createdAt <= m.createdAt}
           k == IF before = {} THEN 0 ELSE CHOOSE i \in before : \A j \in before : j <= i
       IN SubSeq(front, 1, k) \o <<m>> \o SubSeq(front, k + 1, Len(front))

IdsOf(msgs) == {msgs[i].id : i \in 1..Len(msgs)}

\* new MessageList().add(messages, "memory").get.all: the messages added,
\* one of each id, in chronological order
MessageListAll(msgs) == sortByCreatedAt(deduped(msgs))

ReadFailed(id) == [kind |-> id, assembled |-> <<>>, messages |-> <<>>]

\* without the $nin of the ids of the included messages
remainingMessages_All(coll, threadId, excludeIds, n) ==
  ParseRows(limit(sortDescending({d \in coll : d.thread_id = threadId}), n))

\* find({thread_id, id: {$nin: excludeIds}}).sort({createdAt: -1}).limit(n)
remainingMessages(coll, threadId, excludeIds, n) ==
  ParseRows(limit(sortDescending({d \in coll : d.thread_id = threadId /\ d.id \notin excludeIds}),
                  n))

\* getMessages({threadId, selectBy: {last, include}}): the list put together
\* and sorted, and the list returned
getMessages(coll, a) ==
  IF BlankId(a.threadId) THEN ReadFailed("MONGODB_STORE_GET_MESSAGES_FAILED")
  ELSE LET n == resolveMessageLimit(a.last, defaultLimit)
           included == IF Len(a.include) > 0
                       THEN getIncludedMessages(coll, a.threadId, a.include)
                       ELSE <<>>
           remaining == IF n > 0
                        THEN remainingMessages(coll, a.threadId, IdsOf(included), n)
                        ELSE <<>>
           messages == sortByCreatedAt(included \o remaining)
       IN [kind |-> "returned", assembled |-> messages, messages |-> MessageListAll(messages)]

\* the page returned for a blank thread id and after an error
EmptyPage(page, perPage) ==
  [kind |-> "returned", assembled |-> <<>>, messages |-> <<>>, total |-> 0, page |-> page,
   perPage |-> perPage, hasMore |-> FALSE]

\* createdAt within dateRange, a bound of 0 being none
InRange(d, a) ==
  /\ a.start # 0 => d.createdAt >= a.start
  /\ a.end # 0 => d.createdAt <= a.end

\* getMessagesPaginated({threadId, selectBy: {last, include, pagination:
\* {page, perPage, dateRange}}})
getMessagesPaginated(coll, a) ==
  LET perPage == IF a.perPage.kind # "unset" THEN a.perPage.n
                 ELSE resolveMessageLimit(a.last, defaultLimit)
  IN IF Len(a.include) > 0 /\ BlankId(a.threadId)
     THEN ReadFailed("MONGODB_STORE_GET_MESSAGES_PAGINATED_GET_INCLUDE_MESSAGES_FAILED")
     ELSE IF BlankId(a.threadId) THEN EmptyPage(a.page, perPage)
     ELSE
       LET included == IF Len(a.include) > 0
                       THEN getIncludedMessages(coll, a.threadId, a.include)
                       ELSE <<>>
           currentOffset == a.page * perPage
           query == {d \in coll : d.thread_id = a.threadId /\ InRange(d, a)}
           total == Cardinality(query)
           dataResult ==
             limit(skip(sortDescending({d \in query : d.id \notin IdsOf(included)}),
                        currentOffset),
                   perPage)
           messages == included \o ParseRows(dataResult)
       IN IF total = 0 /\ Len(included) = 0 THEN EmptyPage(a.page, perPage)
          ELSE [kind |-> "returned", assembled |-> messages,
                messages |-> MessageListAll(messages), total |-> total, page |-> a.page,
                perPage |-> perPage, hasMore |-> (a.page + 1) * perPage < total]

(***************************************************************************)
(* Memory.query over the store, for a call without a resourceId.  hits are *)
(* the results of the vector queries (none without semantic recall, a      *)
(* search string and a vector store), range the messageRange of the        *)
(* configuration.                                                          *)
(***************************************************************************)

\* the include entries written for the vector results
IncludeOfHits(hits, range) ==
  [i \in 1..Len(hits) |->
     [id |-> hits[i].message_id, threadId |-> hits[i].thread_id,
      withNextMessages |-> range.after, withPreviousMessages |-> range.before]]

\* the messages getter: the last selectBy.last of the v1 messages when there
\* are more (slice(length - last))
messagesView(v1Messages, last) ==
  IF last.kind = "number" /\ last.n # 0 /\ Len(v1Messages) > last.n
  THEN SubSeq(v1Messages, Max(0, Len(v1Messages) - last.n) + 1, Len(v1Messages))
  ELSE v1Messages

query(coll, a) ==
  LET include == IF Len(a.hits) > 0 THEN IncludeOfHits(a.hits, a.range) ELSE a.include
      selectBy == [a EXCEPT !.include = include]
      raw == IF a.paginated THEN getMessagesPaginated(coll, selectBy)
             ELSE getMessages(coll, selectBy)
  IN IF raw.kind # "returned"
     THEN [kind |-> raw.kind, messages |-> <<>>, uiMessages |-> <<>>, messagesV2 |-> <<>>]
     ELSE LET list == MessageListAll(raw.messages)
          IN [kind |-> "returned", messages |-> messagesView(list, a.last),
              uiMessages |-> list, messagesV2 |-> list]

(***************************************************************************)
(* The stored messages read, and the calls made.                           *)
(***************************************************************************)

MsgName(k) == "m" \o ToString(k)

\* the messages m1..mn saved at the times 1..n, the later the earlier its
\* _id, message k in the thread of[k]
StoredMessages(n, of) ==
  {NewDoc(n + 1 - k, [id |-> MsgName(k), thread_id |-> of[k], content |-> "a",
                      createdAt |-> k, resourceId |-> "r1"]) : k \in 1..n}

\* four messages spread over the threads, and a thread of one message more
\* than the default limit
ReadCollections ==
  {StoredMessages(4, of) : of \in [1..4 -> ThreadIds]}
    \cup {StoredMessages(defaultLimit + 1, [k \in 1..(defaultLimit + 1) |-> "t1"])}

Lasts == {NotGiven, IsFalse, Number(-1), Number(1), Number(2)}

IncludeEntries ==
  {[id |-> id, threadId |-> t, withPreviousMessages |-> w[1], withNextMessages |-> w[2]] :
     id \in {"m1", "m3", "m9"}, t \in {"", "t2"}, w \in {<<0, 0>>, <<1, 0>>, <<0, 1>>}}

\* none, one entry, or two entries the first of which is without a window
Includes ==
  {<<>>} \cup {<<i>> : i \in IncludeEntries}
    \cup {<<i, j>> : i \in {e \in IncludeEntries : e.withPreviousMessages + e.withNextMessages = 0},
                     j \in {e \in IncludeEntries : e.threadId = ""}}

NoPagination == [page |-> 0, perPage |-> NotGiven, start |-> 0, end |-> 0]

GetMessagesArgs ==
  {[threadId |-> t, last |-> l, include |-> inc] @@ NoPagination :
     t \in {"t1"}, l \in Lasts, inc \in Includes}
    \cup {[threadId |-> " ", last |-> NotGiven, include |-> inc] @@ NoPagination :
            inc \in {<<>>, <<[id |-> "m1", threadId |-> "", withPreviousMessages |-> 0,
                              withNextMessages |-> 0]>>}}

Paginations ==
  {[page |-> pg, perPage |-> pp, start |-> r[1], end |-> r[2]] :
     pg \in {0, 1}, pp \in {NotGiven, Number(0), Number(1), Number(2)},
     r \in {<<0, 0>>, <<2, 0>>, <<0, 3>>}}

GetMessagesPaginatedArgs ==
  {[threadId |-> "t1", last |-> NotGiven, include |-> inc] @@ pg :
     inc \in {<<>>} \cup {<<i>> : i \in {e \in IncludeEntries : e.withPreviousMessages = 0}},
     pg \in Paginations}
    \cup {[threadId |-> "t1", last |-> IsFalse, include |-> inc] @@ pg :
            inc \in {<<>>} \cup {<<i>> : i \in {e \in IncludeEntries : e.id = "m1"}},
            pg \in {q \in Paginations : q.perPage = NotGiven}}
    \cup {[threadId |-> " ", last |-> NotGiven, include |-> inc] @@ pg :
            inc \in {<<>>, <<[id |-> "m1", threadId |-> "", withPreviousMessages |-> 0,
                              withNextMessages |-> 0]>>},
            pg \in {q \in Paginations : q.start = 0 /\ q.end = 0}}

Hits ==
  LET One == {[message_id |-> id, thread_id |-> t] : id \in {"m1", "m3", "m9"}, t \in ThreadIds}
  IN {<<>>} \cup {<<h>> : h \in One}
       \cup {<<h, g>> : h \in {e \in One : e.message_id = "m1"},
                        g \in {e \in One : e.message_id = "m3"}}

QueryArgs ==
  {[threadId |-> "t1", last |-> l, include |-> <<>>, hits |-> h,
    range |-> [before |-> w, after |-> w], paginated |-> pg # NoPagination] @@ pg :
     l \in Lasts, h \in Hits, w \in {0, 1},
     pg \in {NoPagination, [NoPagination EXCEPT !.perPage = Number(2)]}}

NoCall == [op |-> "none"]

ReadIdle ==
  /\ rcall = NoCall
  /\ rres = NoCall

GetMessages(a) ==
  /\ rcall' = [op |-> "getMessages", args |-> a]
  /\ rres' = getMessages(messagesColl, a)
  /\ UNCHANGED <<semVars, memVars, embedVars, connVars, msgVars, resVars, snapVars, opVars>>

GetMessagesPaginated(a) ==
  /\ rcall' = [op |-> "getMessagesPaginated", args |-> a]
  /\ rres' = getMessagesPaginated(messagesColl, a)
  /\ UNCHANGED <<semVars, memVars, embedVars, connVars, msgVars, resVars, snapVars, opVars>>

Query(a) ==
  /\ rcall' = [op |-> "query", args |-> a]
  /\ rres' = query(messagesColl, a)
  /\ UNCHANGED <<semVars, memVars, embedVars, connVars, msgVars, resVars, snapVars, opVars>>

(***************************************************************************)
(* updateMessages and deleteThread of MemoryStorageMongoDB.  An update      *)
(* names a message by its id and gives a threadId, a content, both or       *)
(* neither ("" and NoContent being a field not given).                     *)
(***************************************************************************)

NoContent == [type |-> "none", text |-> ""]

\* {...existingMessage.content, ...content} stringified: the keys of the
\* stored content, the characters of a stored string being its keys "0", ...,
\* with the text given
newContent(existing, content) ==
  JsonOf(IF existing.type = "string" THEN existing.text ELSE existing.chars, content.text)

\* messages.find((m) => m.id === existingMessage.id)
updatePayload(payloads, id) ==
  payloads[CHOOSE i \in 1..Len(payloads) :
             payloads[i].id = id /\ \A j \in 1..(i - 1) : payloads[j].id # id]

\* Object.keys(fieldsToUpdate).length > 0
HasFields(p) == p.threadId # "" \/ p.content # NoContent

\* the document after the $set of the update written for it
updatedDoc(d, p) ==
  [d EXCEPT !.content = IF p.content # NoContent
                        THEN newContent(parseRow(d).content, p.content)
                        ELSE @,
            !.thread_id = IF p.threadId # "" THEN p.threadId ELSE @]

\* the threads an update of a stored message adds to threadIdsToUpdate
threadIdsToUpdate(d, p) ==
  {d.thread_id} \cup (IF p.threadId # "" /\ p.threadId # d.thread_id THEN {p.threadId} ELSE {})

\* updateMessages({messages}): the collection it leaves, the threads whose
\* updatedAt it sets, and the rows it returns
updateMessages(coll, payloads) ==
  LET messageIds == {payloads[i].id : i \in 1..Len(payloads)}
      existingMessages == {d \in coll : d.id \in messageIds}
      updated == {d \in existingMessages : HasFields(updatePayload(payloads, d.id))}
      after == (coll \ updated) \cup {updatedDoc(d, updatePayload(payloads, d.id)) : d \in updated}
  IN IF existingMessages = {}
     THEN [coll |-> coll, threads |-> {}, returned |-> <<>>]
     ELSE [coll |-> after,
           threads |-> UNION {threadIdsToUpdate(d, updatePayload(payloads, d.id)) : d \in updated},
           returned |-> ParseRows(Reverse(sortDescending({d \in after : d.id \in messageIds})))]

UpdatePayloads ==
  [id : {"m1", "m2", "m9"}, threadId : {"", "t1", "t2"},
   content : {NoContent, [type |-> "object", text |-> "b"]}]

\* the lists of no, one and two updates
UpdateLists ==
  {<<>>} \cup {<<p>> : p \in UpdatePayloads}
    \cup {<<p, q>> : p \in {u \in UpdatePayloads : u.id = "m1" /\ u.threadId # ""},
                     q \in {u \in UpdatePayloads : u.id # "m9" /\ u.content = NoContent}}

UpdateMessages(payloads) ==
  /\ clock < MaxSaves
  /\ clock' = clock + 1
  /\ sprev' = messagesColl
  /\ LET r == updateMessages(messagesColl, payloads)
     IN /\ messagesColl' = r.coll
        /\ threadsColl' = [t \in ThreadIds |->
                             IF t \in r.threads /\ threadsColl[t].exists
                             THEN [threadsColl[t] EXCEPT !.updatedAt = clock + 1]
                             ELSE threadsColl[t]]
        /\ sres' = [kind |-> "updated", list |-> payloads, returned |-> r.returned]
  /\ UNCHANGED nextOid
  /\ UNCHANGED <<semVars, memVars, embedVars, connVars, readVars, resVars, snapVars, opVars>>

\* null
Null == [null |-> TRUE]

\* a thread that is not stored
NoThread == [exists |-> FALSE, updatedAt |-> 0]

\* getThreadById: null for a thread that is not stored
getThreadById(coll, threadId) == IF coll[threadId].exists THEN coll[threadId] ELSE Null

\* a deleteMany that leaves the messages as they are
deleteMany_None(coll, threadId) == coll

\* collectionMessages.deleteMany({thread_id: threadId})
deleteMany(coll, threadId) == {d \in coll : d.thread_id # threadId}

\* deleteThread({threadId}): the messages of the thread, then the thread
DeleteThread(threadId) ==
  /\ clock < MaxSaves
  /\ clock' = clock + 1
  /\ sprev' = messagesColl
  /\ messagesColl' = deleteMany(messagesColl, threadId)
  /\ threadsColl' = [threadsColl EXCEPT ![threadId] = NoThread]
  /\ sres' = [kind |-> "deleted", list |-> <<>>, threadId |-> threadId]
  /\ UNCHANGED nextOid
  /\ UNCHANGED <<semVars, memVars, embedVars, connVars, readVars, resVars, snapVars, opVars>>

(***************************************************************************)
(* A store operation whose driver call (getCollection or a call on the     *)
(* collection) throws: what the operation's catch block makes of it.  An   *)
(* error is an Error with a message, or a value that is not an Error.      *)
(***************************************************************************)

DriverErrors ==
  {[isError |-> TRUE, message |-> "ns not found"],
   [isError |-> TRUE, message |-> "no such table"],
   [isError |-> TRUE, message |-> "connection closed"],
   [isError |-> FALSE, message |-> ""]}

\* throw new MastraError({id, domain: STORAGE, category: THIRD_PARTY,
\* details}, error): the id and the names of the parameters in its details
Typed(id, details) == [kind |-> "thrown", typed |-> TRUE, id |-> id, details |-> details]

\* the error of the driver, thrown on as it is
Raw == [kind |-> "thrown", typed |-> FALSE, id |-> "", details |-> {}]

\* the operation completes
Completes(value) == [kind |-> "returned", typed |-> FALSE, id |-> value, details |-> {}]

\* the operations, with the place of the driver call for those that have two
StoreOps ==
  {"clearTable", "dropTable", "insert", "batchInsert", "load", "getEvalsByAgentName",
   "getMessages", "getMessagesPaginated include", "getMessagesPaginated page", "saveMessages",
   "updateMessages", "getResourceById", "saveResource", "updateResource", "getThreadById",
   "deleteThread", "persistWorkflowSnapshot", "loadWorkflowSnapshot"}

\* the catch block of insert: the typed error is built and logged for an
\* Error, and nothing is thrown
insertCatch(error) == Completes("undefined")

onDriverFailure(op, error) ==
  CASE op = "clearTable" -> Completes("undefined")
    [] op = "dropTable" ->
         IF error.isError /\ error.message = "ns not found" THEN Completes("undefined")
         ELSE Typed("MONGODB_STORE_DROP_TABLE_FAILED", {"tableName"})
    [] op = "insert" -> insertCatch(error)
    [] op = "batchInsert" -> Typed("STORAGE_MONGODB_STORE_BATCH_INSERT_FAILED", {"tableName"})
    [] op = "load" -> Typed("STORAGE_MONGODB_STORE_LOAD_FAILED", {"tableName"})
    [] op = "getEvalsByAgentName" ->
         IF error.isError /\ error.message = "no such table" THEN Completes("[]")
         ELSE Typed("STORAGE_MONGODB_STORE_GET_EVALS_BY_AGENT_NAME_FAILED", {"agentName"})
    [] op = "getMessages" -> Typed("MONGODB_STORE_GET_MESSAGES_FAILED", {"threadId", "resourceId"})
    [] op = "getMessagesPaginated include" ->
         Typed("MONGODB_STORE_GET_MESSAGES_PAGINATED_GET_INCLUDE_MESSAGES_FAILED",
               {"threadId", "resourceId"})
    [] op = "getMessagesPaginated page" -> Completes("empty page")
    [] op = "saveMessages" -> Typed("MONGODB_STORE_SAVE_MESSAGES_FAILED", {})
    [] op = "updateMessages" -> Raw
    [] op = "getResourceById" ->
         Typed("STORAGE_MONGODB_STORE_GET_RESOURCE_BY_ID_FAILED", {"resourceId"})
    [] op = "saveResource" -> Typed("STORAGE_MONGODB_STORE_SAVE_RESOURCE_FAILED", {"resourceId"})
    [] op = "updateResource" ->
         Typed("STORAGE_MONGODB_STORE_UPDATE_RESOURCE_FAILED", {"resourceId"})
    [] op = "getThreadById" -> Typed("STORAGE_MONGODB_STORE_GET_THREAD_BY_ID_FAILED", {"threadId"})
    [] op = "deleteThread" -> Typed("STORAGE_MONGODB_STORE_DELETE_THREAD_FAILED", {"threadId"})
    [] op = "persistWorkflowSnapshot" ->
         Typed("STORAGE_MONGODB_STORE_PERSIST_WORKFLOW_SNAPSHOT_FAILED", {"workflowName", "runId"})
    [] op = "loadWorkflowSnapshot" ->
         Typed("STORAGE_MONGODB_STORE_LOAD_WORKFLOW_SNAPSHOT_FAILED", {"workflowName", "runId"})

\* the driver fails with the error inside the operation, called for a table,
\* thread, resource or run
DriverFailure(op, error, key) ==
  /\ ocall = NoCall
  /\ ocall' = [op |-> op, error |-> error, key |-> key]
  /\ ores' = onDriverFailure(op, error)
  /\ UNCHANGED <<semVars, memVars, embedVars, connVars, msgVars, readVars, resVars, snapVars>>

(***************************************************************************)
(* The MongoDB execution tool: mongodbExecutionTool.execute.               *)
(***************************************************************************)
MaxStages == 2

Stages == {"$match", "$limit", "$out", "$merge"}

\* the stages of an aggregation that write to a collection
WriteStages == {"$out", "$merge"}

NoPipeline == [given |-> FALSE, stages |-> <<>>]

Pipelines ==
  {NoPipeline} \cup {[given |-> TRUE, stages |-> st] :
                       st \in UNION {[1..n -> Stages] : n \in 0..MaxStages}}

\* the operations the input schema lets through
Operations ==
  [type : {"find", "aggregate", "count", "distinct"}, pipeline : Pipelines, field : BOOLEAN]

\* validateMongoOperation(operation): the errors found; the tool does not call it
validateMongoOperation(operation) ==
  CASE operation.type = "aggregate" ->
         IF ~operation.pipeline.given
           THEN {"Aggregation pipeline must be an array of stages"}
         ELSE IF \E k \in 1..Len(operation.pipeline.stages) :
                   operation.pipeline.stages[k] \in
                     {"$out", "$merge", "$replaceRoot", "$addFields", "$set", "$unset"}
           THEN {"Pipeline contains write operations which are not allowed"}
         ELSE {}
    [] operation.type = "distinct" ->
         IF ~operation.field THEN {"Field name is required for distinct operations"} ELSE {}
    [] OTHER -> {}

ToolResult(success, error, wrote) == [success |-> success, error |-> error, wrote |-> wrote]

\* collection.aggregate(pipeline).toArray() on the server: $out and $merge
\* are refused anywhere but at the end of the pipeline, and at the end they
\* write the documents of the pipeline to their target collection
aggregate(pipeline) ==
  IF \E k \in 1..(Len(pipeline) - 1) : pipeline[k] \in WriteStages
    THEN ToolResult(FALSE, "can only be the final stage in the pipeline", FALSE)
  ELSE IF Len(pipeline) > 0 /\ pipeline[Len(pipeline)] \in WriteStages
    THEN ToolResult(TRUE, "", TRUE)
  ELSE ToolResult(TRUE, "", FALSE)

\* the pipeline the tool runs: a $limit is pushed when there is none
withLimit(stages) ==
  IF \E k \in 1..Len(stages) : stages[k] = "$limit" THEN stages ELSE Append(stages, "$limit")

\* execute: the switch over operation.type and the catch
execute(operation) ==
  CASE operation.type = "aggregate" ->
         IF ~operation.pipeline.given
           THEN ToolResult(FALSE, "Aggregation pipeline is required for aggregate operations", FALSE)
           ELSE aggregate(withLimit(operation.pipeline.stages))
    [] operation.type = "distinct" ->
         IF ~operation.field
           THEN ToolResult(FALSE, "Field name is required for distinct operations", FALSE)
           ELSE ToolResult(TRUE, "", FALSE)
    [] OTHER -> ToolResult(TRUE, "", FALSE)

\* One call of the tool.
Execute(operation) ==
  /\ ocall = NoCall
  /\ ocall' = [op |-> "execute", operation |-> operation]
  /\ ores' = execute(operation)
  /\ UNCHANGED <<semVars, memVars, embedVars, connVars, msgVars, readVars, resVars, snapVars>>

(***************************************************************************)
(* Memory.chunkText: the text cut into chunks of whole words.              *)
(***************************************************************************)
CHARS_PER_TOKEN == 4

MaxText == 7

MaxTokenSize == 1

Chars == {"a", "b", " "}

\* texts of at most MaxText characters
ChunkTexts == UNION {[1..n -> Chars] : n \in 0..MaxText}

TokenSizes == 1..MaxTokenSize

RECURSIVE splitFrom(_, _, _, _)
\* text.split(/\s+/) from character i on: cur is the word being read, and
\* inSpace says that the character before was whitespace
splitFrom(text, i, cur, inSpace) ==
  IF i > Len(text) THEN <<cur>>
  ELSE IF text[i] = " "
    THEN IF inSpace THEN splitFrom(text, i + 1, cur, TRUE)
         ELSE <<cur>> \o splitFrom(text, i + 1, <<>>, TRUE)
  ELSE splitFrom(text, i + 1, Append(cur, text[i]), FALSE)

\* text.split(/\s+/): whitespace at either end of the text leaves an empty
\* word there
split(text) == splitFrom(text, 1, <<>>, FALSE)

RECURSIVE chunkWords(_, _, _, _)
\* the loop over the words, and the push of the last chunk when it is not empty
chunkWords(words, chunks, currentChunk, charSize) ==
  IF words = <<>>
    THEN IF currentChunk # <<>> THEN Append(chunks, currentChunk) ELSE chunks
  ELSE LET word == Head(words)
           wordWithSpace == IF currentChunk # <<>> THEN <<" ">> \o word ELSE word
       IN IF Len(currentChunk) + Len(wordWithSpace) > charSize
            THEN chunkWords(Tail(words), Append(chunks, currentChunk), word, charSize)
            ELSE chunkWords(Tail(words), chunks, currentChunk \o wordWithSpace, charSize)

\* all the words in one chunk, whatever the budget
chunkText_NoBudget(text, tokenSize) == chunkWords(split(text), <<>>, <<>>, Len(text) + 1)

chunkText(text, tokenSize) ==
  chunkWords(split(text), <<>>, <<>>, tokenSize * CHARS_PER_TOKEN)

\* One call of chunkText.
ChunkText(text, tokenSize) ==
  /\ ocall = NoCall
  /\ ocall' = [op |-> "chunkText", text |-> text, tokenSize |-> tokenSize]
  /\ ores' = chunkText(text, tokenSize)
  /\ UNCHANGED <<semVars, memVars, embedVars, connVars, msgVars, readVars, resVars, snapVars>>

(***************************************************************************)
(* getResourceById, saveResource and updateResource of                     *)
(* MemoryStorageMongoDB.  A metadata object is written as the list of its  *)
(* keys with their values, in the order of the keys.                       *)
(***************************************************************************)

\* the updateResource calls of a run, at most
MaxUpdates == 3

KeysOf(md) == {md[i][1] : i \in 1..Len(md)}

ValueOf(md, k) == md[CHOOSE i \in 1..Len(md) : md[i][1] = k][2]

\* the spread that keeps the values of the first object
Spread_KeepFirst(a, b) ==
  a \o SelectSeq(b, LAMBDA e : e[1] \notin KeysOf(a))

\* {...a, ...b}
Spread(a, b) ==
  [i \in 1..Len(a) |-> IF a[i][1] \in KeysOf(b) THEN <<a[i][1], ValueOf(b, a[i][1])>> ELSE a[i]]
    \o SelectSeq(b, LAMBDA e : e[1] \notin KeysOf(a))

\* JSON.stringify(metadata): a string, of the keys and values in their order
StringOf(md) == [type |-> "string", json |-> md]

\* safelyParseJSON of what a document holds as metadata
safelyParseJSON(input) == IF input.type = "string" THEN input.json ELSE input

NoResource ==
  [exists |-> FALSE, workingMemory |-> "", metadata |-> StringOf(<<>>), createdAt |-> 0,
   updatedAt |-> 0]

\* getResourceById: null, or the document with its metadata parsed
getResourceById(coll, resourceId) ==
  IF ~coll[resourceId].exists THEN Null
  ELSE [null |-> FALSE, id |-> resourceId,
        workingMemory |-> coll[resourceId].workingMemory,
        metadata |-> safelyParseJSON(coll[resourceId].metadata),
        createdAt |-> coll[resourceId].createdAt, updatedAt |-> coll[resourceId].updatedAt]

\* an argument not given
NoValue == [given |-> FALSE, v |-> ""]

Given(v) == [given |-> TRUE, v |-> v]

NoMetadata == [given |-> FALSE, v |-> <<>>]

\* the working memory written whether or not one was given
newWorkingMemory_Always(a, existing) == a.workingMemory.v

\* workingMemory !== void 0 ? workingMemory : existingResource.workingMemory
newWorkingMemory(a, existing) ==
  IF a.workingMemory.given THEN a.workingMemory.v ELSE existing.workingMemory

\* updateResource({resourceId, workingMemory, metadata}) at a time: the
\* document it leaves and what it returns
updateResource(coll, a, time) ==
  LET existingResource == getResourceById(coll, a.resourceId)
  IN IF existingResource.null
     THEN LET newResource ==
                [null |-> FALSE, id |-> a.resourceId,
                 workingMemory |-> IF a.workingMemory.given THEN a.workingMemory.v ELSE "",
                 metadata |-> IF a.metadata.given THEN a.metadata.v ELSE <<>>,
                 createdAt |-> time, updatedAt |-> time]
          IN [doc |-> [exists |-> TRUE, workingMemory |-> newResource.workingMemory,
                       metadata |-> StringOf(newResource.metadata), createdAt |-> time,
                       updatedAt |-> time],
              returned |-> newResource]
     ELSE LET updatedResource ==
                [existingResource EXCEPT
                   !.workingMemory = newWorkingMemory(a, existingResource),
                   !.metadata = IF a.metadata.given
                                THEN Spread(existingResource.metadata, a.metadata.v)
                                ELSE existingResource.metadata,
                   !.updatedAt = time]
          IN [doc |-> [coll[a.resourceId] EXCEPT
                         !.updatedAt = time,
                         !.workingMemory = IF a.workingMemory.given
                                           THEN updatedResource.workingMemory
                                           ELSE @,
                         !.metadata = IF a.metadata.given
                                      THEN StringOf(updatedResource.metadata)
                                      ELSE @],
              returned |-> updatedResource]

Metadatas ==
  {NoMetadata} \cup
    {[given |-> TRUE, v |-> md] :
       md \in {<<>>, <<<<"k1", "u">>>>, <<<<"k1", "v">>>>, <<<<"k2", "u">>>>,
               <<<<"k2", "u">>, <<"k1", "v">>>>}}

UpdateResourceArgs ==
  [resourceId : {"r1"}, workingMemory : {NoValue, Given(""), Given("w1"), Given("w2")},
   metadata : Metadatas]

ResInit(existing) ==
  /\ resourcesColl \in
       {[r \in ResourceIds |->
           IF r \in e
           THEN [exists |-> TRUE, workingMemory |-> "w0",
                 metadata |-> StringOf(<<<<"k1", "u">>>>), createdAt |-> 0, updatedAt |-> 0]
           ELSE NoResource] : e \in existing}
  /\ ucall = NoCall
  /\ ures = NoCall
  /\ uclock = 0

ResIdle == ResInit({{}})

UpdateResource(a) ==
  /\ uclock < MaxUpdates
  /\ uclock' = uclock + 1
  /\ LET r == updateResource(resourcesColl, a, uclock + 1)
     IN /\ resourcesColl' = [resourcesColl EXCEPT ![a.resourceId] = r.doc]
        /\ ures' = r.returned
  /\ ucall' = [op |-> "updateResource", args |-> a,
               again |-> ucall.op = "updateResource" /\ ucall.args = a]
  /\ UNCHANGED <<semVars, memVars, embedVars, connVars, msgVars, readVars, snapVars, opVars>>

(***************************************************************************)
(* persistWorkflowSnapshot and loadWorkflowSnapshot of                     *)
(* WorkflowsStorageMongoDB, with StoreOperationsMongoDB.load.              *)
(***************************************************************************)

\* the persistWorkflowSnapshot and loadWorkflowSnapshot calls of a run, at most
MaxPersists == 3

WorkflowNames == {"w1", "w2"}

RunIds == {"run1", "run2"}

\* the snapshots given: objects
Snapshots == {[type |-> "object", object |-> "s1"], [type |-> "object", object |-> "s2"]}

NoSnapshot == [type |-> "none", object |-> ""]

\* an insert whatever the collection holds
upsertSnapshot_Insert(st, set) ==
  [coll |-> st.coll \cup {[oid |-> st.oid] @@ set}, oid |-> st.oid + 1]

\* updateOne({workflow_name, run_id}, {$set}, {upsert: true}) on the
\* collection and the next _id
upsertSnapshot(st, set) ==
  LET matching == {d \in st.coll : d.workflow_name = set.workflow_name /\ d.run_id = set.run_id}
  IN IF matching = {}
     THEN [coll |-> st.coll \cup {[oid |-> st.oid] @@ set}, oid |-> st.oid + 1]
     ELSE LET d == CHOOSE d \in matching : \A e \in matching : d.oid <= e.oid
          IN [coll |-> (st.coll \ {d}) \cup {[oid |-> d.oid] @@ set}, oid |-> st.oid]

\* the keys without the run id
loadKeys_NameOnly(d, keys) == d.workflow_name = keys.workflow_name

\* a document matches the keys of load
loadKeys(d, keys) == d.workflow_name = keys.workflow_name /\ d.run_id = keys.run_id

\* StoreOperationsMongoDB.load: find(keys).toArray(), in the order of _id
load(coll, keys) ==
  LET RECURSIVE byOid(_)
      byOid(docs) ==
        IF docs = {} THEN <<>>
        ELSE LET d == CHOOSE d \in docs : \A e \in docs : d.oid <= e.oid
             IN <<d>> \o byOid(docs \ {d})
  IN byOid({d \in coll : loadKeys(d, keys)})

\* loadWorkflowSnapshot: null, or the snapshot of the first document, parsed
\* when it is a string
loadWorkflowSnapshot(coll, workflowName, runId) ==
  LET rows == load(coll, [workflow_name |-> workflowName, run_id |-> runId])
  IN IF Len(rows) = 0 THEN NoSnapshot
     ELSE IF rows[1].snapshot.type = "string"
          THEN [type |-> "object", object |-> rows[1].snapshot.json]
          ELSE rows[1].snapshot

SnapIdle ==
  /\ snapshots = {}
  /\ snapOid = 1
  /\ wcall = NoCall
  /\ wres = NoCall
  /\ wclock = 0
  /\ persisted = [k \in WorkflowNames \X RunIds |-> NoSnapshot]

PersistWorkflowSnapshot(workflowName, runId, snapshot) ==
  /\ wclock < MaxPersists
  /\ wclock' = wclock + 1
  /\ LET st == upsertSnapshot([coll |-> snapshots, oid |-> snapOid],
                              [workflow_name |-> workflowName, run_id |-> runId,
                               resourceId |-> "r1", snapshot |-> snapshot,
                               createdAt |-> wclock + 1, updatedAt |-> wclock + 1])
     IN /\ snapshots' = st.coll
        /\ snapOid' = st.oid
  /\ persisted' = [persisted EXCEPT ![<<workflowName, runId>>] = snapshot]
  /\ wcall' = [op |-> "persistWorkflowSnapshot", workflowName |-> workflowName,
               runId |-> runId]
  /\ wres' = NoCall
  /\ UNCHANGED <<semVars, memVars, embedVars, connVars, msgVars, readVars, resVars, opVars>>

LoadWorkflowSnapshot(workflowName, runId) ==
  /\ wclock < MaxPersists
  /\ wclock' = wclock + 1
  /\ wcall' = [op |-> "loadWorkflowSnapshot", workflowName |-> workflowName, runId |-> runId]
  /\ wres' = loadWorkflowSnapshot(snapshots, workflowName, runId)
  /\ UNCHANGED <<snapshots, snapOid, persisted>>
  /\ UNCHANGED <<semVars, memVars, embedVars, connVars, msgVars, readVars, resVars, opVars>>

\* getResourceById({resourceId}) as a call of its own
GetResourceById(resourceId) ==
  /\ ucall' = [op |-> "getResourceById", args |-> [resourceId |-> resourceId], again |-> FALSE]
  /\ ures' = getResourceById(resourcesColl, resourceId)
  /\ UNCHANGED <<resourcesColl, uclock>>
  /\ UNCHANGED <<semVars, memVars, embedVars, connVars, msgVars, readVars, snapVars, opVars>>

\* the snapshots given as the strings that serialize them
SnapshotStrings == {[type |-> "string", json |-> s.object] : s \in Snapshots}

\* processJsonbFields for the snapshot field, of type jsonb: a string is
\* parsed, anything else is kept
processJsonbFields(snapshot) ==
  IF snapshot.type = "string" THEN [type |-> "object", object |-> snapshot.json] ELSE snapshot

\* insert({tableName: TABLE_WORKFLOW_SNAPSHOT, record}): insertOne of the
\* record with its jsonb fields processed
Insert(workflowName, runId, snapshot) ==
  /\ wclock < MaxPersists
  /\ wclock' = wclock + 1
  /\ snapshots' = snapshots \cup
                    {[oid |-> snapOid, workflow_name |-> workflowName, run_id |-> runId,
                      resourceId |-> "r1", snapshot |-> processJsonbFields(snapshot),
                      createdAt |-> wclock + 1, updatedAt |-> wclock + 1]}
  /\ snapOid' = snapOid + 1
  /\ persisted' = [persisted EXCEPT ![<<workflowName, runId>>] = snapshot]
  /\ wcall' = [op |-> "insert", workflowName |-> workflowName, runId |-> runId]
  /\ wres' = NoCall
  /\ UNCHANGED <<semVars, memVars, embedVars, connVars, msgVars, readVars, resVars, opVars>>

\* the reads, the resources and the workflow snapshots, idle
OpIdle ==
  /\ ocall = NoCall
  /\ ores = NoCall

StoreIdle == ReadIdle /\ ResIdle /\ SnapIdle /\ OpIdle

\* the state outside the concurrency primitive and the working memory, idle
ExtIdle == EmbedIdle /\ ConnIdle /\ MsgIdle /\ StoreIdle

\* A Semaphore used through acquire, the releasers, release, setValue and cancel.
SemNext ==
  \/ \E w \in 0..MaxWeight, p \in 0..MaxPriority : Acquire("acquire", w, p)
  \/ \E id \in TaskIds : ReleaserCall(id)
  \/ \E w \in 0..MaxWeight : Release(w)
  \/ \E v \in 0..MaxValue : SetValue(v)
  \/ Cancel

SemSpecInit == SemInit(FALSE) /\ MemIdle /\ ExtIdle

SpecSem == SemSpecInit /\ [][SemNext]_vars

\* A Mutex used through acquire, runExclusive, release and cancel.
MutexNext ==
  \/ \E kind \in {"acquire", "runExclusive"}, p \in 0..MaxPriority : Acquire(kind, 1, p)
  \/ \E id \in TaskIds : CallbackStart(id)
  \/ \E id \in TaskIds, how \in {"return", "throw"} : CallbackEnd(id, how)
  \/ \E id \in TaskIds : ReleaserCall(id)
  \/ Release(1)
  \/ Cancel

MutexSpecInit == SemInit(TRUE) /\ MemIdle /\ ExtIdle

SpecMutex == MutexSpecInit /\ [][MutexNext]_vars

\* A Semaphore or a Mutex used only through acquire, runExclusive, the
\* releasers they hand out, and cancel.
PermitsInit == (\E mutex \in BOOLEAN : SemInit(mutex)) /\ MemIdle /\ ExtIdle

PermitsNext ==
  \/ \E kind \in {"acquire", "runExclusive"}, w \in 1..MaxWeight, p \in 0..MaxPriority :
       Acquire(kind, w, p)
  \/ \E id \in TaskIds : CallbackStart(id)
  \/ \E id \in TaskIds, how \in {"return", "throw"} : CallbackEnd(id, how)
  \/ \E id \in TaskIds : ReleaserCall(id)
  \/ Cancel

SpecPermits == PermitsInit /\ [][PermitsNext]_vars

\* A Mutex whose requests all have priority 0, whose holders release and
\* which nobody cancels.
MaxRequests == 3

RequestIds == 1..MaxRequests

QueueInit ==
  /\ isMutex = TRUE
  /\ sem = newSemaphore(1)
  /\ nextId = 1
  /\ task = [i \in RequestIds |-> NoTask]
  /\ called = {}
  /\ running = {}
  /\ ended = [i \in RequestIds |-> "none"]
  /\ direct = FALSE
  /\ lastOp = Op("none", 0, 0)
  /\ MemIdle
  /\ ExtIdle

\* Mutex.acquire() and the acquire that starts Mutex.runExclusive(callback):
\* weight 1, the default priority
MutexAcquire(kind) ==
  /\ UNCHANGED <<memVars, extVars>>
  /\ nextId <= MaxRequests
  /\ sem' = acquire(sem, [id |-> nextId, weight |-> 1, priority |-> 0])
  /\ task' = [task EXCEPT ![nextId] = [weight |-> 1, priority |-> 0, kind |-> kind]]
  /\ nextId' = nextId + 1
  /\ lastOp' = Op("acquire", nextId, 1)
  /\ UNCHANGED <<isMutex, called, running, ended, direct>>

\* the holder of a permit got from acquire() calls its releaser
HolderReleases(id) == id \notin called /\ ReleaserCall(id)

\* the callback of request id returns or throws
CallbackEnds(id) == \E how \in {"return", "throw"} : CallbackEnd(id, how)

QueueNext ==
  \/ \E kind \in {"acquire", "runExclusive"} : MutexAcquire(kind)
  \/ \E id \in RequestIds : CallbackStart(id)
  \/ \E id \in RequestIds : CallbackEnds(id)
  \/ \E id \in RequestIds : HolderReleases(id)

\* Every holder gives its permit back: a callback that can start starts, a
\* running callback ends, and the caller of acquire() calls its releaser.
SpecQueue ==
  /\ QueueInit
  /\ [][QueueNext]_vars
  /\ \A id \in RequestIds :
       /\ WF_vars(CallbackStart(id))
       /\ WF_vars(CallbackEnds(id))
       /\ WF_vars(HolderReleases(id))

\* Concurrent calls of __experimental_updateWorkingMemoryVNext on one Memory
\* instance, one call per caller; thread t1 exists, thread t2 does not.
SemIdle == SemInit(TRUE) /\ sem = newSemaphore(1)

Init == SemIdle /\ MemInit({"thread", "resource"}, {"t1"}, {}, <<>>) /\ ExtIdle

Next ==
  \/ \E p \in Procs, a \in Args(ThreadIds, ResourceIds, Contents, Searches, Scopes) : Start(p, a)
  \/ \E p \in Procs : GetWorkingMemory(p)
  \/ \E p \in Procs : UpdateResourceGet(p)
  \/ \E p \in Procs : UpdateResourceSet(p)
  \/ \E p \in Procs : GetThreadById(p)
  \/ \E p \in Procs : UpdateThreadGet(p)
  \/ \E p \in Procs : UpdateThreadSet(p)

Spec == Init /\ [][Next]_vars

\* Updates of the threads and of one resource, with one content.
KeysNext ==
  \/ \E p \in Procs, a \in Args(ThreadIds, {"r1"}, {<<"a">>}, {<<>>}, Scopes) : Start(p, a)
  \/ \E p \in Procs : GetWorkingMemory(p)
  \/ \E p \in Procs : UpdateResourceGet(p)
  \/ \E p \in Procs : UpdateResourceSet(p)
  \/ \E p \in Procs : GetThreadById(p)
  \/ \E p \in Procs : UpdateThreadGet(p)
  \/ \E p \in Procs : UpdateThreadSet(p)

SpecKeys == Init /\ [][KeysNext]_vars

\* Updates under the scope of the instance, with one content.
FairNext ==
  \/ \E p \in Procs, a \in Args(ThreadIds, {"r1"}, {<<"a">>}, {<<>>}, {"unset"}) : Start(p, a)
  \/ \E p \in Procs : GetWorkingMemory(p)
  \/ \E p \in Procs : UpdateResourceGet(p)
  \/ \E p \in Procs : UpdateResourceSet(p)
  \/ \E p \in Procs : GetThreadById(p)
  \/ \E p \in Procs : UpdateThreadGet(p)
  \/ \E p \in Procs : UpdateThreadSet(p)

\* The event loop runs every continuation that is ready, and every storage
\* call returns or throws.
FairSpec == Init /\ [][FairNext]_vars /\ WF_vars(FairNext)

\* Calls made one after the other, each started when no other call is in
\* progress, on thread t1 and resource r1.
MergeInit ==
  /\ SemIdle
  /\ \E wm \in InitialMemories : MemInit({"thread", "resource"}, {"t1"}, {"r1"}, wm)
  /\ ExtIdle

StartAlone(p, a) ==
  /\ \A q \in Procs \ {p} : pc[q] \in {"idle", "done"}
  /\ Start(p, a)

MergeNext ==
  \/ \E p \in Procs, a \in Args({"t1"}, {"r1"}, MergeContents, MergeSearches, {"unset"}) :
       StartAlone(p, a)
  \/ \E p \in Procs : GetWorkingMemory(p)
  \/ \E p \in Procs : UpdateResourceGet(p)
  \/ \E p \in Procs : UpdateResourceSet(p)
  \/ \E p \in Procs : GetThreadById(p)
  \/ \E p \in Procs : UpdateThreadGet(p)
  \/ \E p \in Procs : UpdateThreadSet(p)

SpecMerge == MergeInit /\ [][MergeNext]_vars

\* Concurrent updates of thread t1 and resource r1 with contents that hold
\* the template's text, with and without a search string.
DupContents == {<<"a">>, Template, Template \o <<"a">>, <<"#">> \o Template \o <<"t">>}

DupNext ==
  \/ \E p \in Procs, a \in Args({"t1"}, {"r1"}, DupContents, Searches, {"unset"}) : Start(p, a)
  \/ \E p \in Procs : GetWorkingMemory(p)
  \/ \E p \in Procs : UpdateResourceGet(p)
  \/ \E p \in Procs : UpdateResourceSet(p)
  \/ \E p \in Procs : GetThreadById(p)
  \/ \E p \in Procs : UpdateThreadGet(p)
  \/ \E p \in Procs : UpdateThreadSet(p)

SpecDup == Init /\ [][DupNext]_vars

\* Both ways of updating the working memory, run concurrently.
WritersNext ==
  \/ \E p \in Procs, a \in Args(ThreadIds, {"r1"}, Contents, {<<>>}, Scopes) : Start(p, a)
  \/ \E p \in Procs, a \in Args(ThreadIds, {"r1"}, Contents, {<<>>}, Scopes) :
       UpdateWorkingMemory(p, a)
  \/ \E p \in Procs : GetWorkingMemory(p)
  \/ \E p \in Procs : UpdateResourceGet(p)
  \/ \E p \in Procs : UpdateResourceSet(p)
  \/ \E p \in Procs : GetThreadById(p)
  \/ \E p \in Procs : UpdateThreadGet(p)
  \/ \E p \in Procs : UpdateThreadSet(p)

SpecWriters == Init /\ [][WritersNext]_vars

\* Calls of the three working-memory operations on a store that declares
\* resourceWorkingMemory and on one that does not.
SupportInit ==
  /\ SemIdle
  /\ MemInitOn({TRUE, FALSE}, {"thread", "resource"}, {"t1"}, {"r1"}, <<"a">>)
  /\ ExtIdle

SupportNext ==
  \/ \E p \in Procs, a \in Args({"t1"}, {"r1"}, {<<"b">>}, {<<>>}, Scopes) : Start(p, a)
  \/ \E p \in Procs, a \in Args({"t1"}, {"r1"}, {<<"b">>}, {<<>>}, Scopes) :
       UpdateWorkingMemory(p, a)
  \/ \E p \in Procs, a \in Args({"t1"}, {"r1"}, {<<"b">>}, {<<>>}, Scopes) :
       ReadWorkingMemory(p, a)
  \/ \E p \in Procs : GetWorkingMemory(p)
  \/ \E p \in Procs : UpdateResourceGet(p)
  \/ \E p \in Procs : UpdateResourceSet(p)
  \/ \E p \in Procs : GetThreadById(p)
  \/ \E p \in Procs : UpdateThreadGet(p)
  \/ \E p \in Procs : UpdateThreadSet(p)

SpecSupport == SupportInit /\ [][SupportNext]_vars

\* Calls of embedMessageContent, one after the other and overlapping.
EmbedSpecInit ==
  SemIdle /\ MemIdle /\ EmbedInit({"none", "fastembed", "openai"}) /\ ConnIdle /\ MsgIdle
    /\ StoreIdle

EmbedNext ==
  \/ \E p \in Procs, t \in Texts : EmbedMessageContent(p, t)
  \/ \E p \in Procs : EmbedLookup(p)
  \/ \E p \in Procs : EmbedAfterFirst(p)
  \/ \E p \in Procs : EmbedDone(p)

SpecEmbed == EmbedSpecInit /\ [][EmbedNext]_vars

\* A store constructed from any configuration, and calls of getConnection
\* and getCollection that may overlap; every connect() resolves.
ConnectInit ==
  SemIdle /\ MemIdle /\ EmbedIdle /\ ConnInit(Configs) /\ MsgIdle /\ StoreIdle

ConnectNext ==
  \/ NewMongoDBStore
  \/ \E p \in Procs : GetConnection(p)
  \/ \E p \in Procs : GetCollection(p)
  \/ \E p \in Procs : ConnectDone(p)

SpecConnect == ConnectInit /\ [][ConnectNext]_vars

\* The same with close() calls, and connect() may reject.
ConnNext ==
  \/ ConnectNext
  \/ \E p \in Procs : ConnectFail(p)
  \/ \E p \in Procs : Close(p)
  \/ \E p \in Procs : CloseDone(p)

SpecConn == ConnectInit /\ [][ConnNext]_vars

\* saveMessages calls, one after the other.
MessagesInit ==
  SemIdle /\ MemIdle /\ EmbedIdle /\ ConnIdle /\ MsgInit({{"t1"}, {"t1", "t2"}}) /\ StoreIdle

MessagesNext == \E msgs \in Batches : SaveMessages(msgs)

SpecMessages == MessagesInit /\ [][MessagesNext]_vars

\* saveMessages, updateMessages and deleteThread calls, one after the other,
\* on a store that holds three messages.
StoreBatches ==
  {<<>>} \cup {<<m>> : m \in StoreMessages} \cup {<<m, n>> : m, n \in StoreMessages}

StoreInit ==
  /\ SemIdle /\ MemIdle /\ EmbedIdle /\ ConnIdle /\ StoreIdle
  /\ MsgInitWith({StoredMessages(3, <<"t1", "t2", "t1">>), StoredMessages(3, <<"t1", "t1", "t1">>)},
                 {{"t1", "t2"}, {"t1"}})

StoreNext ==
  \/ \E msgs \in StoreBatches : SaveMessages(msgs)
  \/ \E payloads \in UpdateLists : UpdateMessages(payloads)
  \/ \E t \in ThreadIds : DeleteThread(t)

SpecStore == StoreInit /\ [][StoreNext]_vars

\* A record written to an empty store and read back: messages, a resource or
\* a workflow snapshot.
NothingWritten == clock = 0 /\ uclock = 0 /\ wclock = 0

RoundTripBatches ==
  LET M == {m \in Messages : m.threadId # "" /\ m.resourceId # ""}
  IN {<<m>> : m \in M} \cup {<<m, n>> : m, n \in M}

WriteMessages(msgs) == NothingWritten /\ SaveMessages(msgs)

ReadMessages(a) == clock = 1 /\ rcall = NoCall /\ GetMessages(a)

WriteResource(a) == NothingWritten /\ UpdateResource(a)

ReadResource(r) == ucall.op = "updateResource" /\ GetResourceById(r)

WriteSnapshot(w, r, snapshot) == NothingWritten /\ PersistWorkflowSnapshot(w, r, snapshot)

InsertSnapshot(w, r, snapshot) == NothingWritten /\ Insert(w, r, snapshot)

ReadSnapshot(w, r) == wclock = 1 /\ LoadWorkflowSnapshot(w, r)

RoundTripNext ==
  \/ \E msgs \in RoundTripBatches : WriteMessages(msgs)
  \/ \E a \in {g \in GetMessagesArgs : g.include = <<>>} : ReadMessages(a)
  \/ \E a \in UpdateResourceArgs : WriteResource(a)
  \/ \E r \in ResourceIds : ReadResource(r)
  \/ \E w \in WorkflowNames, r \in RunIds, snapshot \in Snapshots : WriteSnapshot(w, r, snapshot)
  \/ \E w \in WorkflowNames, r \in RunIds, snapshot \in Snapshots \cup SnapshotStrings :
       InsertSnapshot(w, r, snapshot)
  \/ \E w \in WorkflowNames, r \in RunIds : ReadSnapshot(w, r)

SpecRoundTrip == Init /\ [][RoundTripNext]_vars

\* One store operation in which the driver fails.
FailuresNext ==
  \E op \in StoreOps, error \in DriverErrors, key \in {"k1", "k2"} : DriverFailure(op, error, key)

SpecFailures == Init /\ [][FailuresNext]_vars

\* Calls of chunkText on every text of the bounded set.
ChunkNext == \E text \in ChunkTexts, tokenSize \in TokenSizes : ChunkText(text, tokenSize)

SpecChunk == Init /\ [][ChunkNext]_vars

\* Calls of the execution tool with every operation of the bounded set.
ToolNext == \E operation \in Operations : Execute(operation)

SpecTool == Init /\ [][ToolNext]_vars

\* One read of stored messages.
ReadSpecInit ==
  /\ SemIdle /\ MemIdle /\ EmbedIdle /\ ConnIdle
  /\ MsgInitWith(ReadCollections, {{"t1", "t2"}})
  /\ StoreIdle

\* A read leaves the store as it is: the first read of a run stands for the
\* reads after it.
FirstRead == rcall = NoCall

FirstGetMessages(a) == FirstRead /\ GetMessages(a)

FirstGetMessagesPaginated(a) == FirstRead /\ GetMessagesPaginated(a)

FirstQuery(a) == FirstRead /\ Query(a)

ReadNext ==
  \/ \E a \in GetMessagesArgs : FirstGetMessages(a)
  \/ \E a \in GetMessagesPaginatedArgs : FirstGetMessagesPaginated(a)
  \/ \E a \in QueryArgs : FirstQuery(a)

SpecRead == ReadSpecInit /\ [][ReadNext]_vars

\* updateResource calls, one after the other, on a resource that exists or
\* does not.
ResourceInit ==
  /\ SemIdle /\ MemIdle /\ EmbedIdle /\ ConnIdle /\ MsgIdle /\ ReadIdle
  /\ ResInit({{}, {"r1"}})
  /\ SnapIdle
  /\ OpIdle

ResourceNext == \E a \in UpdateResourceArgs : UpdateResource(a)

SpecResource == ResourceInit /\ [][ResourceNext]_vars

\* Workflow snapshots persisted and loaded, one call after the other.
SnapshotNext ==
  \/ \E w \in WorkflowNames, r \in RunIds, snapshot \in Snapshots :
       PersistWorkflowSnapshot(w, r, snapshot)
  \/ \E w \in WorkflowNames, r \in RunIds : LoadWorkflowSnapshot(w, r)

SpecSnapshots == Init /\ [][SnapshotNext]_vars

(***************************************************************************)
(* Properties of the Semaphore and the Mutex.                              *)
(***************************************************************************)
RECURSIVE TaskWeights(_, _)
TaskWeights(S, t) ==
  IF S = {} THEN 0
  ELSE LET x == CHOOSE x \in S : TRUE IN t[x].weight + TaskWeights(S \ {x}, t)

\* the requests a step grants
Granted == sem'.resolved \ sem.resolved

\* a step that runs Semaphore.release(weight): a direct call, the first call
\* of a releaser, or the release that ends runExclusive
ReleaseStep ==
  /\ lastOp'.op \in {"release", "releaser", "callback-end"}
  /\ lastOp'.op = "release" => (isMutex => isLocked(sem))

\* the step grants the first k queued requests and leaves the others queued
GrantsPrefix(k) ==
  /\ Granted = {sem.queue[i].id : i \in 1..k}
  /\ sem'.queue = SubSeq(sem.queue, k + 1, Len(sem.queue))

QueueSorted ==
  \A i, j \in 1..Len(sem.queue) :
    i < j => \/ sem.queue[i].priority > sem.queue[j].priority
             \/ /\ sem.queue[i].priority = sem.queue[j].priority
                /\ sem.queue[i].id < sem.queue[j].id

GrantFromHead ==
  Granted \cap IdSet(sem.queue) # {} => \E k \in 1..Len(sem.queue) : GrantsPrefix(k)

C5_QueueOrder == [](QueueSorted) /\ [][GrantFromHead]_vars

\* a later request of higher priority waits ahead of an earlier one, which
\* waits ahead of a later one of its own priority
C5_Witness ==
  /\ Len(sem.queue) >= 2
  /\ \E i \in 1..Len(sem.queue) - 1 :
       /\ sem.queue[i].priority > sem.queue[i + 1].priority
       /\ sem.queue[i].id > sem.queue[i + 1].id

\* C6: acquire(weight, priority) is granted at once, without entering the
\* queue, exactly when the weight fits the value and every queued request has
\* a strictly lower priority; otherwise it is queued and the value is unchanged.
AcquireImmediateOrQueued ==
  nextId' = nextId + 1 =>
    LET id == nextId
        w == task'[id].weight
        p == task'[id].priority
        fits == /\ w <= sem.value
                /\ \A i \in 1..Len(sem.queue) : sem.queue[i].priority < p
    IN /\ id \in sem'.resolved <=> fits
       /\ fits => /\ sem'.queue = sem.queue
                  /\ sem'.value = sem.value - w
                  /\ sem'.resolved = sem.resolved \cup {id}
       /\ ~fits => /\ id \in IdSet(sem'.queue)
                   /\ Len(sem'.queue) = Len(sem.queue) + 1
                   /\ sem'.value = sem.value
                   /\ sem'.resolved = sem.resolved

C6_AcquireImmediate == [][AcquireImmediateOrQueued]_vars

\* the last acquire was granted at once although requests are waiting
C6_Witness ==
  /\ lastOp.op = "acquire"
  /\ lastOp.id \in sem.resolved
  /\ sem.queue # <<>>

\* C7, as stated: when release returns, no queued request has a weight that
\* is at most the available value.
C7_Original ==
  lastOp.op \in {"release", "releaser"} =>
    \A i \in 1..Len(sem.queue) : sem.queue[i].weight > sem.value

\* C7, amended: release(weight) adds weight to the value and grants queued
\* requests from the head of the queue, in queue order, while the head fits;
\* when it returns the queue is empty or its head does not fit the value.
ReleaseDispatchesHead ==
  ReleaseStep /\ lastOp'.weight > 0 =>
    /\ \E k \in 0..Len(sem.queue) : GrantsPrefix(k)
    /\ sem'.value = sem.value + lastOp'.weight - TaskWeights(Granted, task)
    /\ sem'.queue = <<>> \/ sem'.queue[1].weight > sem'.value

C7_ReleaseDispatch == [][ReleaseDispatchesHead]_vars

\* after a release the head of the queue does not fit, and a request behind
\* it that would fit is still waiting
C7_Witness ==
  /\ lastOp.op \in {"release", "releaser"}
  /\ Len(sem.queue) >= 2
  /\ sem.queue[1].weight > sem.value
  /\ \E i \in 2..Len(sem.queue) : sem.queue[i].weight <= sem.value

\* C8: cancel() rejects every queued request and empties the queue; the value,
\* the granted permits and their releasers are untouched, and a releaser
\* called later still returns its weight.
CancelRejectsQueued ==
  lastOp'.op = "cancel" =>
    /\ sem'.queue = <<>>
    /\ sem'.rejected = sem.rejected \cup IdSet(sem.queue)
    /\ sem'.value = sem.value
    /\ sem'.resolved = sem.resolved
    /\ called' = called

ReleaseAfterCancel ==
  lastOp'.op = "releaser" /\ sem.rejected # {} =>
    sem'.value + TaskWeights(Granted, task) = sem.value + lastOp'.weight

C8_Cancel ==
  /\ [](sem.rejected \cap (sem.resolved \cup IdSet(sem.queue)) = {})
  /\ [][CancelRejectsQueued /\ ReleaseAfterCancel]_vars

\* cancel() has just rejected waiting requests while a permit is out
C8_Witness ==
  /\ lastOp.op = "cancel"
  /\ sem.rejected # {}
  /\ sem.resolved \ called # {}

\* C9: the first call of a releaser returns the acquired weight to the value
\* (which the dispatch may hand on to queued requests); every later call
\* changes nothing.
ReleaserOnce ==
  lastOp'.op \in {"releaser", "releaser-noop"} =>
    LET id == lastOp'.id
    IN IF id \in called
         THEN sem' = sem /\ called' = called
         ELSE /\ sem'.value + TaskWeights(Granted, task) = sem.value + task[id].weight
              /\ called' = called \cup {id}

C9_ReleaserIdempotent == [][ReleaserOnce]_vars

\* a releaser has been called for the second time
C9_Witness == lastOp.op = "releaser-noop" /\ lastOp.id \in called

(***************************************************************************)
(* Properties of the working-memory update.                                *)
(***************************************************************************)
Active(p) == pc[p] \notin {"idle", "done"}

\* the call waits for its mutex
Waiting(p) == pc[p] = "acquire" /\ p \notin mutexes[loc[p].key].resolved

\* the call holds its mutex
Holding(p) == Active(p) /\ p \in mutexes[loc[p].key].resolved

\* the stored working memory a call reads and writes
Stored(rs, ts, p) == getWorkingMemory(instScope, args[p], rs, ts)

\* the stored value after an update of value v with the arguments of call p
Applied(v, p) ==
  LET m == mergeWorkingMemory(v, args[p].workingMemory, args[p].searchString, Template)
  IN IF m.write THEN m.value ELSE v

\* two calls that write the working memory of one resource
SameResource(p, q) ==
  /\ p # q
  /\ toResource(instScope, args[p]) /\ toResource(instScope, args[q])
  /\ args[p].resourceId = args[q].resourceId

\* C1: when two updates of the working memory of one resource have both
\* returned (no storage call threw, no other call wrote that resource), the
\* stored value is the result of the two updates applied one after the other,
\* in one of the two orders.
C1_NoLostUpdate ==
  \A p, q \in Procs :
    /\ SameResource(p, q)
    /\ pc[p] = "done" /\ pc[q] = "done"
    /\ ~loc[p].failed /\ ~loc[q].failed
    /\ \A o \in Procs \ {p, q} : pc[o] = "idle"
    => resources[args[p].resourceId].workingMemory
         \in {Applied(Applied(<<>>, p), q), Applied(Applied(<<>>, q), p)}

\* the key of an update, as the Memory engine names it: resource-<resourceId>
\* when the call's configuration selects the resource scope, else
\* thread-<threadId>
ScopeKey(a) ==
  IF a.callScope = "resource" THEN <<"resource", a.resourceId>> ELSE <<"thread", a.threadId>>

\* C2: an update waits only while another update of the same key holds the
\* mutex; an update that starts while no update of its key is in progress is
\* granted its mutex at once; and an update that holds its mutex can always
\* take its next step, whatever the updates of other keys do.
WaitOnlyOnOwnKey ==
  \A p \in Procs :
    Waiting(p) => \E q \in Procs \ {p} : Holding(q) /\ ScopeKey(args[q]) = ScopeKey(args[p])

NotBlocked == \A p \in Procs : Holding(p) => ENABLED Step(p)

StartImmediate ==
  \A p \in Procs :
    /\ pc[p] = "idle" /\ pc'[p] = "acquire"
    /\ \A q \in Procs \ {p} : Active(q) => ScopeKey(args[q]) # ScopeKey(args'[p])
    => p \in mutexes'[loc'[p].key].resolved

PermitHeldByUpdateInProgress ==
  \A k \in Keys :
    /\ mutexes[k].value = 1 - Cardinality({p \in Procs : Holding(p) /\ loc[p].key = k})
    /\ mutexes[k].value \in {0, 1}
    /\ mutexes[k].queue # <<>> => isLocked(mutexes[k])

C3_AlwaysReleased ==
  /\ [](PermitHeldByUpdateInProgress)
  /\ \A p \in Procs : Waiting(p) ~> Holding(p)

\* an update ended on a storage error and an update of the same key that
\* had to wait for it now holds the mutex
C3_Witness ==
  \E p, q \in Procs :
    /\ p # q
    /\ pc[p] = "done" /\ loc[p].failed /\ result[p] = ToolError
    /\ loc[q].key = loc[p].key
    /\ Holding(q)

\* C10, as stated: with a non-empty stored value, an update that returns
\* without error has (1) replaced the first occurrence of the search string
\* by the new content, or else (2) written nothing when the new content is in
\* the stored value or equals the template, or else (3) stored the old value,
\* a newline and the new content.
PlainReplace(s, pat, repl) ==
  LET i == indexOf(s, pat)
  IN SubSeq(s, 1, i - 1) \o repl \o SubSeq(s, i + Len(pat), Len(s))

MergeAsStated(p) ==
  LET e == loc'[p].existing
      w == args[p].workingMemory
      ss == args[p].searchString
      before == Stored(resources, threads, p)
      after == Stored(resources', threads', p)
  IN /\ pc[p] # "done" /\ pc'[p] = "done"
     /\ ~loc'[p].failed /\ result'[p] # ToolError
     /\ e # <<>>
     => IF ss # <<>> /\ includes(e, ss)
          THEN after = PlainReplace(e, ss, w)
          ELSE IF includes(e, w) \/ w = Template
            THEN after = before /\ ~result'[p].success
            ELSE after = e \o <<"\n">> \o w

C10_MergeAsStated == [][\A p \in Procs : MergeAsStated(p)]_vars

\* The same three actions with what the engine does after them: the template
\* is compared up to surrounding white space, and its text is removed from the
\* value before the write.  The new content is still taken verbatim.
MergeVerbatim(p) ==
  LET e == loc'[p].existing
      w == args[p].workingMemory
      ss == args[p].searchString
      before == Stored(resources, threads, p)
      after == Stored(resources', threads', p)
  IN /\ pc[p] # "done" /\ pc'[p] = "done"
     /\ ~loc'[p].failed /\ result'[p] # ToolError
     /\ e # <<>>
     => IF ss # <<>> /\ includes(e, ss)
          THEN after = removeAll(PlainReplace(e, ss, w), Template)
          ELSE IF includes(e, w) \/ trim(w) = trim(Template)
            THEN after = before /\ ~result'[p].success
            ELSE after = removeAll(e \o <<"\n">> \o w, Template)

MergeVerbatimAlways == [][\A p \in Procs : MergeVerbatim(p)]_vars

\* the two refusals of the merge
SkipReasons ==
  {"attempted to insert duplicate data into working memory. this entry was skipped",
   "try again when you have data to add. newMemory was equal to the working memory template"}

\* the call of p returns in this step, no storage call having thrown
Returns(p) ==
  /\ pc[p] # "done" /\ pc'[p] = "done"
  /\ ~loc'[p].failed /\ result'[p] # ToolError

\* the content of the call is the template or is in the value the call read
IsDuplicate(p) ==
  \/ args[p].workingMemory = Template
  \/ loc'[p].existing # <<>> /\ includes(loc'[p].existing, args[p].workingMemory)

\* the search string of the call is in the value the call read
SearchFound(p) ==
  /\ loc'[p].existing # <<>>
  /\ args[p].searchString # <<>>
  /\ includes(loc'[p].existing, args[p].searchString)

\* the call returns the refusal straight from the merge and nothing is written
Skipped(p) ==
  /\ pc[p] = "acquire"
  /\ ~result'[p].success
  /\ result'[p].reason \in SkipReasons
  /\ resources' = resources /\ threads' = threads

\* C11, as stated: an update whose content is the template or is in the
\* stored value is refused and writes nothing, whatever the prior value and
\* the search string.
C11_Original == [][\A p \in Procs : Returns(p) /\ IsDuplicate(p) => Skipped(p)]_vars

\* C11, amended: unless its search string occurs in the stored value (then
\* the replacement is made), an update whose content is the template or is in
\* the stored value returns success=false with one of the two refusal
\* reasons, and makes no storage write.
C11_DuplicateSkipped ==
  [][\A p \in Procs : Returns(p) /\ IsDuplicate(p) /\ ~SearchFound(p) => Skipped(p)]_vars

\* an update with a search string that is not in the stored value was
\* refused as a duplicate
C11_Witness ==
  \E p \in Procs :
    /\ pc[p] = "done" /\ ~result[p].success /\ result[p].reason \in SkipReasons
    /\ args[p].searchString # <<>>
    /\ loc[p].existing # <<>>
    /\ includes(loc[p].existing, args[p].workingMemory)

\* two updates of one thread's working memory with the same content have
\* both returned, no storage call having failed, and no other update was made
SameContentTwice(p, q) ==
  /\ p # q
  /\ ~toResource(instScope, args[p]) /\ ~toResource(instScope, args[q])
  /\ args[p].threadId = args[q].threadId
  /\ args[p].workingMemory = args[q].workingMemory
  /\ pc[p] = "done" /\ pc[q] = "done"
  /\ ~loc[p].failed /\ ~loc[q].failed
  /\ result[p] # ToolError /\ result[q] # ToolError
  /\ \A o \in Procs \ {p, q} : pc[o] = "idle"

\* exactly one of the two succeeded and the thread holds the content once
OneWins(p, q) ==
  /\ result[p].success # result[q].success
  /\ threads[args[p].threadId].workingMemory = args[p].workingMemory

TemplateStripped(p) ==
  Returns(p) /\ result'[p].success =>
    ~includes(Stored(resources', threads', p), Template)

C13_NoTemplateStored == [][\A p \in Procs : TemplateStripped(p)]_vars

\* the call is inside storage.updateResource for resource r
InUpdateResource(p, r) ==
  /\ pc[p] \in {"updateResource", "updateResourceSet"}
  /\ args[p].resourceId = r

\* the call holds the mutex of resource r
HoldsResourceMutex(p, r) ==
  /\ loc[p].key = <<"resource", r>>
  /\ p \in mutexes[<<"resource", r>>].resolved

\* C14: a call that writes the working memory of a resource holds the mutex
\* of that resource id while it is inside updateResource, and no two calls
\* are inside updateResource for one resource at the same time.
C14_WritesUnderMutex ==
  \A r \in ResourceIds :
    /\ \A p \in Procs : InUpdateResource(p, r) => HoldsResourceMutex(p, r)
    /\ \A p, q \in Procs : InUpdateResource(p, r) /\ InUpdateResource(q, r) => p = q

(***************************************************************************)
(* Properties of the embedding cache.                                      *)
(***************************************************************************)
\* the embedMany calls made for text t
CallsFor(t) == {k \in 1..Len(providerCalls) : providerCalls[k].text = t}

\* call q returned a result, call p started after that and has returned a
\* result too, and no other call was made
InSequence(q, p) ==
  /\ q \in eseen[p]
  /\ epc[p] = "done" /\ eres[p] # EmbedError
  /\ \A o \in Procs \ {p, q} : epc[o] = "idle"

\* C15: of two calls in sequence with the same text, the provider is invoked
\* once and the second call returns the cached chunks and vectors; of two
\* calls in sequence with different texts, the provider is invoked twice.
C15_CacheCorrect ==
  \A p, q \in Procs :
    InSequence(q, p) =>
      IF etext[p] = etext[q]
        THEN Len(providerCalls) = 1 /\ eres[p] = eres[q]
        ELSE Len(providerCalls) = 2

\* C16, as stated: the provider is invoked at most once for each text.
C16_Original == \A t \in Texts : Cardinality(CallsFor(t)) <= 1

\* C16, amended: embedMany is called for a text only by a call that found no
\* entry under the text's hash, and never by a call that started after a call
\* for the same text had returned its result; calls for one text that overlap
\* may each invoke the provider.
InvokedOnMiss ==
  \A p \in Procs :
    epc[p] # "embedMany" /\ epc'[p] = "embedMany" =>
      \/ epc[p] = "firstEmbed"
      \/ embeddingCache[h32(etext[p])] = NoEntry

NotInvokedAfterResult ==
  \A k, j \in 1..Len(providerCalls) :
    providerCalls[k].text = providerCalls[j].text =>
      providerCalls[k].by \notin eseen[providerCalls[j].by]

C16_OncePerCachedText == [](NotInvokedAfterResult) /\ [][InvokedOnMiss]_vars

\* two overlapping calls for one text have both invoked the provider, and
\* both have returned
C16_Witness ==
  \E p, q \in Procs :
    /\ p # q
    /\ etext[p] = etext[q]
    /\ epc[p] = "done" /\ epc[q] = "done"
    /\ Cardinality(CallsFor(etext[p])) = 2
    /\ eres[p] # EmbedError /\ eres[q] # EmbedError

(***************************************************************************)
(* The connector.                                                          *)
(***************************************************************************)

\* C17: for a connector built from a database configuration the driver's
\* connect() is called at most once, however many getConnection and
\* getCollection calls are made and however they overlap, and all of them
\* return the same database handle.
C17_SingleConnect ==
  connector.client => (connects <= 1 /\ Cardinality(returned) <= 1)

\* a call that starts after a connect() has resolved does not connect again
\* and returns the cached handle
ConnectedStaysConnected ==
  [][\A p \in Procs :
       (isConnected /\ db # 0 /\ (GetConnection(p) \/ GetCollection(p)))
         => (connects' = connects /\ returned' = returned \cup {db})]_vars

\* the configuration names no usable target and gives no handler
NoTargetNoHandler ==
  /\ config.connectorHandler # "handler"
  /\ Blank(config.url) \/ Blank(config.dbName)

\* C18: a store constructed with a missing, empty or whitespace-only url or
\* dbName and without a connection handler fails in the constructor: no
\* connector exists, no connect() is attempted, and no later call reports
\* the configuration.
C18_FailsAtConstruction ==
  (connector.state # "none" /\ NoTargetNoHandler)
    => (connector.state = "failed" /\ connects = 0 /\ cerrors = {})

\* the same for the configurations without the key connectorHandler
FailsAtConstructionWithoutKey ==
  (connector.state # "none" /\ config.connectorHandler = "absent")
    => /\ (Blank(config.url) \/ Blank(config.dbName)) <=> connector.state = "failed"
       /\ connector.state = "failed" =>
            (connector.error = "STORAGE_MONGODB_STORE_CONSTRUCTOR_FAILED"
               /\ connects = 0 /\ cerrors = {})

MessagesOf(coll, t) == {d \in coll : d.thread_id = t}

WithId(coll, id) == {d \in coll : d.id = id}

\* the last message of the list with the id
LatestOf(list, id) ==
  list[CHOOSE i \in 1..Len(list) :
         list[i].id = id /\ \A j \in (i + 1)..Len(list) : list[j].id # id]

\* every message of the list has its id stored in the thread it names
AllStoredInThread(coll, list) ==
  \A i \in 1..Len(list) :
    \E d \in coll : d.id = list[i].id /\ d.thread_id = list[i].threadId

\* C20: saveMessages upserts by id: after a call that saved, every id of the
\* call is held by exactly one stored message, with the content last given
\* for it; when the ids were already stored in the threads named, the number
\* of messages of each thread is unchanged; and no two stored messages ever
\* share an id.
C20_UpsertById ==
  /\ \A d, e \in messagesColl : d.id = e.id => d = e
  /\ sres.kind = "saved" =>
       /\ \A i \in 1..Len(sres.list) :
            LET id == sres.list[i].id
            IN /\ Cardinality(WithId(messagesColl, id)) = 1
               /\ \A d \in WithId(messagesColl, id) :
                    d.content = stringify(LatestOf(sres.list, id).content)
       /\ AllStoredInThread(sprev, sres.list) =>
            \A t \in ThreadIds :
              Cardinality(MessagesOf(messagesColl, t)) = Cardinality(MessagesOf(sprev, t))

\* a stored message was saved again, in its thread, with another content
C20_Witness ==
  /\ sres.kind = "saved"
  /\ AllStoredInThread(sprev, sres.list)
  /\ \E d \in sprev, e \in messagesColl :
       d.id = e.id /\ d.thread_id = e.thread_id /\ d.content # e.content

(***************************************************************************)
(* getMessages, getMessagesPaginated and Memory.query.                     *)
(***************************************************************************)

\* ascending by creation time, no two messages of one id
Chronological(list) ==
  \A i, j \in 1..Len(list) :
    i < j => (list[i].createdAt <= list[j].createdAt /\ list[i].id # list[j].id)

\* the stored messages of a thread
ThreadOf(coll, t) == {d \in coll : d.thread_id = t}

\* the n most recent of a set of stored messages
MostRecent(docs, n) ==
  {d \in docs : Cardinality({e \in docs : e.createdAt > d.createdAt}) < n}

\* the ids of a list in its order
IdSeq(list) == [i \in 1..Len(list) |-> list[i].id]

GetMessagesReturned == rcall.op = "getMessages" /\ rres.kind = "returned"

RankIn(docs, d) == Cardinality({e \in docs : e.createdAt < d.createdAt})

\* the ids of the message of an include entry with the messages before and
\* after it asked for, in the order of its thread
WindowIds(coll, threadId, inc) ==
  LET S == ThreadOf(coll, IF inc.threadId = "" THEN threadId ELSE inc.threadId)
  IN {d.id : d \in {d \in S : \E t \in S :
                               /\ t.id = inc.id
                               /\ RankIn(S, d) >= RankIn(S, t) - inc.withPreviousMessages
                               /\ RankIn(S, d) <= RankIn(S, t) + inc.withNextMessages}}

\* the ids of all the include windows
IncludedIds(coll, threadId, include) ==
  UNION {WindowIds(coll, threadId, include[i]) : i \in 1..Len(include)}

\* N of a last argument
LastN(last) ==
  IF last.kind = "number" THEN (IF last.n < 0 THEN 0 ELSE last.n)
  ELSE IF last.kind = "false" THEN 0
  ELSE defaultLimit

\* C22 as stated: getMessages returns exactly the N most recent messages of
\* the thread together with the include windows.
C22_Original ==
  GetMessagesReturned =>
    IdsOf(rres.messages) =
      IncludedIds(messagesColl, rcall.args.threadId, rcall.args.include)
        \cup {d.id : d \in MostRecent(ThreadOf(messagesColl, rcall.args.threadId),
                                      LastN(rcall.args.last))}

\* C22: getMessages returns exactly the union of (b) the include windows,
\* each the message of an entry whose id exists with up to
\* withPreviousMessages before and withNextMessages after it in the order of
\* its thread, and (a) the N most recent messages of the thread that are in
\* no include window, N being last when a number (negative as 0), 0 when
\* false and the default otherwise; of a thread A, B, C last=2 returns [B, C].
C22_IncludedAndMostRecentOfTheRest ==
  GetMessagesReturned =>
    LET included == IncludedIds(messagesColl, rcall.args.threadId, rcall.args.include)
        rest == {d \in ThreadOf(messagesColl, rcall.args.threadId) : d.id \notin included}
    IN /\ IdsOf(rres.messages) =
            included \cup {d.id : d \in MostRecent(rest, LastN(rcall.args.last))}
       /\ (/\ rcall.args.last = Number(2)
           /\ rcall.args.include = <<>>
           /\ IdSeq(sortAscending(ThreadOf(messagesColl, rcall.args.threadId)))
                = <<"m1", "m2", "m3">>)
            => IdSeq(rres.messages) = <<"m2", "m3">>

\* last=1 with the window of an older message: the window and the most recent
\* message were returned
C22_Witness ==
  /\ GetMessagesReturned
  /\ rcall.args.last = Number(1)
  /\ Len(rcall.args.include) = 1
  /\ rcall.args.include[1].withNextMessages = 1
  /\ IdSeq(rres.messages) = <<"m1", "m2", "m4">>

\* a view holds the direct window and the windows around the hits, in
\* chronological order without two messages of one id
HoldsWindows(view) ==
  /\ Chronological(view)
  /\ {d.id : d \in MostRecent(ThreadOf(messagesColl, rcall.args.threadId),
                              LastN(rcall.args.last))}
       \subseteq IdsOf(view)
  /\ IncludedIds(messagesColl, rcall.args.threadId,
                 IncludeOfHits(rcall.args.hits, rcall.args.range))
       \subseteq IdsOf(view)

\* C23: Memory.query with a vector search string returns in each of its
\* views (messages, messagesV2, uiMessages) every message of the direct
\* window, the last N messages, and every message of the window around each
\* hit of the vector search, in chronological order without two messages of
\* one id.
C23_EveryViewHoldsWindows ==
  (/\ rcall.op = "query"
   /\ rres.kind = "returned"
   /\ Len(rcall.args.hits) > 0
   /\ ~rcall.args.paginated)
    => /\ HoldsWindows(rres.messages)
       /\ HoldsWindows(rres.messagesV2)
       /\ HoldsWindows(rres.uiMessages)

PageReturned == rcall.op = "getMessagesPaginated" /\ rres.kind = "returned"

\* C24: getMessagesPaginated returns hasMore = true exactly when offset +
\* (number of messages returned) < total, offset being page * perPage and
\* total the number of messages of the thread within the date range, for
\* every page, perPage and include.
C24_HasMore ==
  PageReturned =>
    (rres.hasMore <=> rres.page * rres.perPage + Len(rres.messages) < rres.total)

\* a call for a window of no message, without include entries
ZeroWindow ==
  /\ rcall.op \in {"getMessages", "getMessagesPaginated"}
  /\ ~BlankId(rcall.args.threadId)
  /\ rcall.args.include = <<>>
  /\ \/ rcall.op = "getMessages" /\ rcall.args.last = IsFalse
     \/ /\ rcall.op = "getMessagesPaginated"
        /\ rcall.args.page = 0
        /\ rcall.args.perPage = Number(0)

\* C25: a call for a zero window, getMessagesPaginated with page 0 and
\* perPage=0 or getMessages with last=false, without include entries returns
\* no message and raises no error, whatever the thread holds.
C25_ZeroWindowReturnsNothing ==
  ZeroWindow => (rres.kind = "returned" /\ rres.messages = <<>>)

(***************************************************************************)
(* saveMessages, updateMessages and deleteThread.                          *)
(***************************************************************************)

\* the stored thread has its updatedAt set by the last call
Bumped(t) == threadsColl[t].exists => threadsColl[t].updatedAt = clock

\* after a saveMessages that saved, the thread of every message of the call
\* is bumped
SaveBumpsThreads ==
  sres.kind = "saved" => \A i \in 1..Len(sres.list) : Bumped(sres.list[i].threadId)

\* after an updateMessages, the thread that held a message updated with at
\* least one field is bumped, and so is the thread it was moved to
UpdateBumpsThreads ==
  sres.kind = "updated" =>
    \A d \in sprev :
      (\E i \in 1..Len(sres.list) : sres.list[i].id = d.id) =>
        LET p == updatePayload(sres.list, d.id)
        IN HasFields(p) =>
             /\ Bumped(d.thread_id)
             /\ p.threadId # "" => Bumped(p.threadId)

\* C26: every successful message mutation bumps the updatedAt of the threads
\* concerned: saveMessages that of the parent thread of every saved message,
\* updateMessages that of the thread owning a message it changes and, when
\* the threadId changes, of both the previous and the new thread.
C26_MutationsBumpThreads == SaveBumpsThreads /\ UpdateBumpsThreads

\* C27: deleteThread cascades to the messages of the thread: after
\* deleteThread(T) has returned, getThreadById(T) returns null and no stored
\* message has the thread id T, while every other thread and its messages
\* are as they were.
C27_DeleteCascades ==
  [][(clock' # clock /\ sres'.kind = "deleted") =>
       /\ getThreadById(threadsColl', sres'.threadId) = Null
       /\ ThreadOf(messagesColl', sres'.threadId) = {}
       /\ \A t \in ThreadIds \ {sres'.threadId} :
            /\ threadsColl'[t] = threadsColl[t]
            /\ ThreadOf(messagesColl', t) = ThreadOf(messagesColl, t)]_vars

\* a thread that held messages was deleted, and messages of another thread
\* are stored
C27_Witness ==
  /\ sres.kind = "deleted"
  /\ ThreadOf(sprev, sres.threadId) # {}
  /\ ThreadOf(messagesColl, sres.threadId) = {}
  /\ messagesColl # {}
  /\ \E t \in ThreadIds : t # sres.threadId /\ threadsColl[t].exists

(***************************************************************************)
(* updateResource.                                                         *)
(***************************************************************************)

\* the metadata a document holds, as the value of each of its keys
MetaOf(doc) ==
  LET md == safelyParseJSON(doc.metadata)
  IN [k \in KeysOf(md) |-> ValueOf(md, k)]

\* the keys given merged over the keys held
MergedOver(held, given) ==
  [k \in DOMAIN held \cup KeysOf(given) |->
     IF k \in KeysOf(given) THEN ValueOf(given, k) ELSE held[k]]

\* C28: updateResource creates the resource when it is absent and otherwise
\* merges into it: the metadata keys given are merged over the metadata held
\* and workingMemory is replaced only when a value is given; what it returns
\* is what it leaves stored; and the same call made a second time leaves the
\* workingMemory and the metadata the first left.
C28_CreateOrMerge ==
  [][uclock' # uclock =>
       LET a == ucall'.args
           before == resourcesColl[a.resourceId]
           after == resourcesColl'[a.resourceId]
       IN /\ after.exists
          /\ \A r \in ResourceIds \ {a.resourceId} : resourcesColl'[r] = resourcesColl[r]
          /\ ~before.exists =>
               /\ after.workingMemory = (IF a.workingMemory.given THEN a.workingMemory.v ELSE "")
               /\ MetaOf(after) = MergedOver(<<>>, a.metadata.v)
          /\ before.exists =>
               /\ after.workingMemory =
                    (IF a.workingMemory.given THEN a.workingMemory.v ELSE before.workingMemory)
               /\ MetaOf(after) = MergedOver(MetaOf(before), a.metadata.v)
          /\ ures'.workingMemory = after.workingMemory
          /\ [k \in KeysOf(ures'.metadata) |-> ValueOf(ures'.metadata, k)] = MetaOf(after)
          /\ ucall'.again =>
               /\ after.workingMemory = before.workingMemory
               /\ MetaOf(after) = MetaOf(before)]_vars

\* a call that gave metadata and no workingMemory was made a second time on
\* a resource that holds two metadata keys and a workingMemory
C28_Witness ==
  /\ ucall.op = "updateResource"
  /\ ucall.again
  /\ ucall.args.metadata.given
  /\ ~ucall.args.workingMemory.given
  /\ Len(safelyParseJSON(resourcesColl[ucall.args.resourceId].metadata)) = 2
  /\ resourcesColl[ucall.args.resourceId].workingMemory # ""

(***************************************************************************)
(* persistWorkflowSnapshot and loadWorkflowSnapshot.                       *)
(***************************************************************************)

\* C29: after any sequence of persistWorkflowSnapshot calls, repeated calls
\* for one run among them, the store holds at most one snapshot document for
\* a pair of workflowName and runId.
C29_OneSnapshotPerRun ==
  \A d, e \in snapshots :
    (d.workflow_name = e.workflow_name /\ d.run_id = e.run_id) => d = e

\* the snapshot of the first run persisted was persisted again after that of
\* a second run
C29_Witness ==
  /\ Cardinality(snapshots) = 2
  /\ \E d, e \in snapshots : d.oid = 1 /\ e.oid = 2 /\ d.createdAt > e.createdAt

\* C30: loadWorkflowSnapshot(workflowName, runId) returns null when no
\* snapshot has been persisted for the pair, and otherwise the snapshot
\* persisted last for it, never that of another pair.
C30_LoadReturnsLastPersisted ==
  wcall.op = "loadWorkflowSnapshot" =>
    /\ wres = persisted[<<wcall.workflowName, wcall.runId>>]
    /\ (\A d \in snapshots :
          ~(d.workflow_name = wcall.workflowName /\ d.run_id = wcall.runId))
         => wres = NoSnapshot

\* a load returned the snapshot of its pair while another run of the
\* workflow, persisted before it, holds another snapshot
C30_Witness ==
  /\ wcall.op = "loadWorkflowSnapshot"
  /\ wres \in Snapshots
  /\ \E r \in RunIds \ {wcall.runId} :
       /\ persisted[<<wcall.workflowName, r>>] \in Snapshots \ {wres}
       /\ \E d, e \in snapshots :
            /\ d.workflow_name = wcall.workflowName /\ d.run_id = r
            /\ e.workflow_name = wcall.workflowName /\ e.run_id = wcall.runId
            /\ d.oid < e.oid

(***************************************************************************)
(* Records written and read back.                                          *)
(***************************************************************************)

\* the content read is the structured content written
SameContent(read, written) ==
  read.type = "object" /\ read.text = written.text /\ read.chars = ""

C32_FailuresPropagateTyped ==
  ocall.op \in StoreOps =>
    \/ ores.kind = "thrown" /\ ores.typed /\ ores.id # "" /\ ores.details # {}
    \/ ores.kind = "returned" /\ ocall.op = "clearTable"
    \/ /\ ores.kind = "returned"
       /\ ocall.op = "dropTable"
       /\ ocall.error = [isError |-> TRUE, message |-> "ns not found"]


\* the resource-scoped configurations of a call on the store at hand
ResourceScoped(a) == getMergedThreadConfig(instScope, a.callScope) = "resource"

\* C33: on a store that does not declare resourceWorkingMemory, a call of
\* updateWorkingMemory, __experimental_updateWorkingMemoryVNext or
\* getWorkingMemory whose merged scope is "resource" ends at once with the
\* error: no mutex is created or requested, no storage call is made (the call
\* records no read and never waits on one), and the stored resources and
\* threads stay as they were.
C33_UnsupportedScopeRejected ==
  [][\A p \in Procs :
       (pc[p] = "idle" /\ pc'[p] # "idle" /\ ~supports /\ ResourceScoped(args'[p]))
         => /\ pc'[p] = "done"
            /\ result'[p] = Unsupported
            /\ loc'[p] = NoLoc
            /\ UNCHANGED <<mutexes, created, resources, threads, failures>>]_vars

C33_Witness ==
  \E p \in Procs :
    /\ ~supports
    /\ pc[p] = "done"
    /\ result[p] = Unsupported
    /\ ResourceScoped(args[p])
    /\ \E q \in Procs \ {p} : result[q].success


\* the total weight of the permits granted and not yet released
Held == TaskWeights(sem.resolved \ called, task)

\* C36: with release() and setValue() never called directly, the
\* value of the semaphore is never negative and every step keeps the sum of
\* the value and of the weights of the permits granted and not yet released:
\* nothing is held at first, so the sum is the value V the semaphore was
\* created with.  A Mutex has at most one holder at any time.
C36_PermitsConserved ==
  /\ [](/\ sem.value >= 0
        /\ isMutex => Cardinality(sem.resolved \ called) <= 1)
  /\ [][sem'.value + Held' = sem.value + Held]_vars

\* a permit was released and the request that waited for it holds it now
C36_Witness ==
  /\ isMutex
  /\ called # {}
  /\ Held > 0
  /\ sem.value = 0

\* C37: after every operation the queue is empty or the request at its head
\* asks for more than the value; requests of weight 1, as those of a Mutex,
\* wait only while the semaphore is locked.
C37_NoLostWakeup ==
  sem.queue # <<>> =>
    /\ sem.queue[1].weight > sem.value
    /\ (\A i \in 1..Len(sem.queue) : sem.queue[i].weight = 1) => isLocked(sem)

\* a release has granted the head of the queue and the next request, which
\* does not fit, still waits
C37_Witness ==
  /\ lastOp.op \in {"release", "releaser", "callback-end", "setValue"}
  /\ sem.queue # <<>>
  /\ sem.value > 0
  /\ \E id \in sem.resolved \ called : id > sem.queue[1].id

\* C38: on a Mutex whose holders all release, which is never cancelled and
\* whose requests have one priority, every request that waits is granted in
\* the end, and the requests are granted in the order they arrived in: no
\* request is granted before an earlier one.
C38_GrantedInArrivalOrder ==
  /\ \A id \in RequestIds : (id \in IdSet(sem.queue)) ~> (id \in sem.resolved)
  /\ [](\A i, j \in RequestIds : (i < j /\ j \in sem.resolved) => i \in sem.resolved)

\* the first request has released, the second holds the permit, the third waits
C38_Witness ==
  /\ 1 \in called
  /\ 2 \in sem.resolved \ called
  /\ IdSet(sem.queue) = {3}

\* the requests a mutex knows: those it has granted and those it holds queued
Known(m) == m.resolved \cup IdSet(m.queue)

\* the step is the start of an update by p
Starts(p) == pc[p] = "idle" /\ pc'[p] = "acquire"

\* C39: a key has no mutex before its first update; the start of an update
\* adds the entry of its key, and no other, when the map has none; an entry
\* once made stays, and its mutex is never replaced by another one: the
\* requests it has granted or queued are still known to it after every
\* step, the starts of later updates of the key included.
NoMutexBeforeFirstUpdate == \A k \in Keys \ created : mutexes[k] = newSemaphore(1)

EntriesKept ==
  /\ created \subseteq created'
  /\ \A k \in created :
       /\ mutexes[k].resolved \subseteq mutexes'[k].resolved
       /\ IdSet(mutexes[k].queue) \subseteq Known(mutexes'[k])
  /\ \A p \in Procs :
       Starts(p) => /\ created' = created \cup {loc'[p].key}
                    /\ Known(mutexes'[loc'[p].key]) = 
                         (IF loc'[p].key \in created
                            THEN Known(mutexes[loc'[p].key]) ELSE {}) \cup {p}
  /\ (\A p \in Procs : ~Starts(p)) => created' = created

\* C39: one mutex per key, made by the first update and kept.
C39_OneMutexPerKey == [](NoMutexBeforeFirstUpdate) /\ [][EntriesKept]_vars

\* an update waits on the mutex that an earlier update of its key created
\* and still holds
C39_Witness ==
  \E p, q \in Procs :
    /\ p # q
    /\ loc[p].key = loc[q].key
    /\ Holding(p)
    /\ Waiting(q)
    /\ Known(mutexes[loc[p].key]) = {p, q}

\* the call made was chunkText
Chunked == ocall.op = "chunkText"

Budget == ocall.tokenSize * CHARS_PER_TOKEN

\* C34 as stated: every chunk is at most tokenSize * 4 characters long.
C34_Original == Chunked => \A k \in 1..Len(ores) : Len(ores[k]) <= Budget

\* C34: every chunk is at most tokenSize * 4 characters long, unless it is
\* one single word of the text that is itself longer than that: a chunk of
\* two or more words never exceeds the budget.
C34_ChunkWithinBudgetOrOneWord ==
  Chunked =>
    \A k \in 1..Len(ores) :
      \/ Len(ores[k]) <= Budget
      \/ /\ \A i \in 1..Len(ores[k]) : ores[k][i] # " "
         /\ \E w \in 1..Len(split(ocall.text)) : split(ocall.text)[w] = ores[k]

C34_Witness ==
  /\ Chunked
  /\ Len(ocall.text) > Budget
  /\ Len(ores) >= 2
  /\ \E k \in 1..Len(ores) : \E i \in 1..Len(ores[k]) : ores[k][i] = " "
  /\ \E k \in 1..Len(ores) : Len(ores[k]) = Budget

\* C35: whatever operation the tool is given, the call either returns an
\* error result or runs without writing to the database.
C35_ToolNeverWrites == ocall.op = "execute" => (~ores.success \/ ~ores.wrote)

\* the words of a text that are not empty, in order
Words(text) == SelectSeq(split(text), LAMBDA w : w # <<>>)

RECURSIVE JoinChunks(_)
\* chunks.join(" ")
JoinChunks(chunks) ==
  IF chunks = <<>> THEN <<>>
  ELSE IF Len(chunks) = 1 THEN chunks[1]
  ELSE chunks[1] \o <<" ">> \o JoinChunks(Tail(chunks))

\* C40: no chunk is empty, and the chunks joined with single spaces hold the
\* words of the text, whole and in their order.
C40_WordsKeptNoEmptyChunk ==
  Chunked =>
    /\ \A k \in 1..Len(ores) : ores[k] # <<>>
    /\ Words(JoinChunks(ores)) = Words(ocall.text)


====
